---- MODULE Spec2Model ----
(***************************************************************************)
(* Battery cycle analyzer: data loaders, CycleDataContainer, the analyzer  *)
(* workflow (prepare -> analyze -> postprocess) and the linked analyzer.   *)
(*                                                                         *)
(* A DataFrame is a record [cols, rows]: its column names and its rows in  *)
(* positional order.  A row carries TimeMin, Vol, Crate and the set "na"   *)
(* of its cells that are null (NaN).  Table objects live in a heap (obj)   *)
(* so that a copy and an alias of a stored table are different things.     *)
(***************************************************************************)
EXTENDS Integers, Sequences, FiniteSets, TLC

\* ------------------------------------------------------------------ bounds
MaxCycle == 3
MultiDigitLabel == 10
MaxListLen == 2
MutTime == 7
MaxLocal == 2
MaxRows == 3
MaxRuns == 2
MaxFadeCycles == 3
MaxIoLog == 3
MaxNameLen == 6
MinPulseRows == 23

VARIABLES
    dir,        \* the data directory handed to the loader and the container
    kind,       \* loader variant made by the factory: "PNE" | "TOYO"
    rawCache,   \* ToyoDataLoader._raw_data_cache: <<>> (None) or <<raw table>>
    obj,        \* heap: object id -> DataFrame
    cycles,     \* CycleDataContainer._cycles: cycle number -> object id
    keyOrder,   \* insertion order of the keys of _cycles (dict order)
    metadata,   \* CycleDataContainer._metadata
    held,       \* ids of the tables the last read call returned to the caller
    ret         \* the last call on the container, the loader, the builder or
                \* an accessor of the analyzer: operation, arguments, outcome

cvars == <<dir, kind, rawCache, obj, cycles, keyOrder, metadata, held, ret>>

VARIABLES
    variant,    \* analyzer class: "individual" | "linked" | "reliability"
    config,     \* the AnalysisConfig handed to the analyzer
    tsvFile,    \* the manifest file on disk: <<>> when absent, else <<table>>
    store,      \* container objects: id -> (cycle number -> DataFrame)
    containers, \* LinkedCycleAnalyzer.containers: dict as <<[path, id], ...>>
    container,  \* BaseAnalyzer.container: id of the bound container
    tsv_data,   \* LinkedCycleAnalyzer.tsv_data: <<>> until prepare reads it
    results,    \* BaseAnalyzer.results
    pc,         \* position of the analyzer: "new", "constructed", "prepared", ...
    trace,      \* the phases the current run() has entered, in order
    err,        \* the exception that ended the constructor or the last run()
    runs        \* number of run() calls begun on the analyzer

avars == <<variant, config, tsvFile, store, containers, container, tsv_data,
           results, pc, trace, err, runs>>

VARIABLES
    disk,       \* the data paths on disk: path number -> directory
    ioLog       \* what the loader object did since it was made: the path
                \* number of each raw export it read, 0 for each clear_cache()

lvars == <<disk, ioLog>>

vars == <<cvars, avars, lvars>>

\* ----------------------------------------------------------------- helpers
Range(f) == {f[x] : x \in DOMAIN f}

EmptyMap == [x \in {} |-> 0]

MapPut(f, k, v) == [x \in (DOMAIN f) \cup {k} |-> IF x = k THEN v ELSE f[x]]

Restrict(f, S) == [x \in (DOMAIN f) \cap S |-> f[x]]

\* the elements of a list
SeqToSet(q) == {q[i] : i \in 1..Len(q)}

SetMin(S) == CHOOSE x \in S : \A y \in S : x <= y

SetMax(S) == CHOOSE x \in S : \A y \in S : x >= y

\* sorted(...) of a set of integers
RECURSIVE SortedSeq(_)
SortedSeq(S) == IF S = {} THEN <<>> ELSE <<SetMin(S)>> \o SortedSeq(S \ {SetMin(S)})

\* A heap address for a table made by copy() or concat(): tables stored by
\* the container live at the positive address of their cycle number, the
\* caller's tables at the first free address among 0, -1, -2, ...
NewId(h) == SetMax({i \in (0 - Cardinality(DOMAIN h))..0 : i \notin DOMAIN h})

\* ------------------------------------------------------------- DataFrames
RequiredColumns == <<"TimeMin", "Vol", "Crate">>

Row(t, v, c, na) == [TimeMin |-> t, Vol |-> v, Crate |-> c, na |-> na]

Df(cols, rows) == [cols |-> cols, rows |-> rows]

\* the order of sort_values: a null time is behind every time
TimeNotLater(a, b) ==
    \/ "TimeMin" \in b.na
    \/ "TimeMin" \notin a.na /\ a.TimeMin <= b.TimeMin

\* df.sort_values("TimeMin"): insertion of each row behind the rows that are
\* not later than it (the order numpy gives such short columns); rows with
\* a null time are put last (na_position="last")
RECURSIVE InsertByTime(_, _)
InsertByTime(rows, r) ==
    IF rows = <<>> THEN <<r>>
    ELSE IF TimeNotLater(rows[Len(rows)], r) THEN Append(rows, r)
    ELSE Append(InsertByTime(SubSeq(rows, 1, Len(rows) - 1), r), rows[Len(rows)])

RECURSIVE SortByTime(_)
SortByTime(rows) ==
    IF rows = <<>> THEN <<>>
    ELSE InsertByTime(SortByTime(SubSeq(rows, 1, Len(rows) - 1)), rows[Len(rows)])

\* df.dropna(subset=["Vol", "Crate"])
DropNa(rows) == SelectSeq(rows, LAMBDA r : r.na \cap {"Vol", "Crate"} = {})

\* BaseDataLoader.validate_data: the required columns the table lacks
MissingColumns(df) == SelectSeq(RequiredColumns, LAMBDA c : c \notin df.cols)

\* BaseDataLoader.preprocess_data
PreprocessData(df) ==
    LET sorted == IF "TimeMin" \in df.cols THEN SortByTime(df.rows) ELSE df.rows
    IN  Df(df.cols, DropNa(sorted))

\* the times of the rows whose time is not null
Times(rows) == {rows[i].TimeMin : i \in {j \in 1..Len(rows) : "TimeMin" \notin rows[j].na}}

\* df["TimeMin"].min() of a table with rows: nulls are skipped; the minimum
\* of nulls alone is null, and taking it from a null leaves the null
TimeMinOf(rows) == IF Times(rows) = {} THEN 0 ELSE SetMin(Times(rows))

\* df["TimeMin"].max() of a table with rows
TimeMaxOf(rows) == SetMax({rows[i].TimeMin : i \in 1..Len(rows)})

\* df["TimeMin"] + d: a null time stays null
ShiftTime(rows, d) ==
    [i \in 1..Len(rows) |->
        [rows[i] EXCEPT !.TimeMin = IF "TimeMin" \in rows[i].na THEN @ ELSE @ + d]]

\* ToyoDataLoader.preprocess_data: base preprocessing, then elapsed time from 0
ToyoPreprocessData(df) ==
    LET base == PreprocessData(df)
    IN  IF "TimeMin" \in base.cols /\ Len(base.rows) > 0
        THEN Df(base.cols, ShiftTime(base.rows, 0 - TimeMinOf(base.rows)))
        ELSE base

\* ------------------------------------------------------- data directories
\* A directory: the "Pattern" subfolder, the SaveData<N>.csv files of the
\* folder and of its Restore/ subfolder (cycle number -> file content), and
\* the consolidated raw export (rawFile: <<>> when absent, else <<rows>>).
\* A raw row: Condition (the cycle number its label names, 0 for a label
\* without one), Time in seconds, Voltage, Current, na.
RawRow(label, t, v, c, na) ==
    [Condition |-> label, Time |-> t, Voltage |-> v, Current |-> c, na |-> na]

\* parsers.check_cycler
CheckCycler(d) == IF d.pattern THEN "PNE" ELSE "TOYO"

\* a factory that goes by the SaveData files of the folder
CreateLoaderByFiles(d) == IF DOMAIN d.primary # {} THEN "PNE" ELSE "TOYO"

\* DataLoaderFactory.create_loader
CreateLoader(d) == IF CheckCycler(d) = "PNE" THEN "PNE" ELSE "TOYO"

Ok(v) == [exc |-> "none", val |-> v]

Raise(e) == [exc |-> e, val |-> <<>>]

\* parsers.get_all_cycles: the span of cycle numbers of a directory
GetAllCycles(d) ==
    IF CheckCycler(d) = "PNE"
    THEN IF DOMAIN d.primary = {} THEN Raise("FileNotFoundError")
         ELSE Ok(<<SetMin(DOMAIN d.primary), SetMax(DOMAIN d.primary)>>)
    ELSE IF d.rawFile = <<>> THEN Raise("FileNotFoundError")
         ELSE LET raw == d.rawFile[1]
                  nums == {raw[i].Condition : i \in 1..Len(raw)} \ {0}
              IN  IF nums = {} THEN Raise("ValueError")
                  ELSE Ok(<<SetMin(nums), SetMax(nums)>>)

\* PNEDataLoader.load_cycle
PNELoadCycle(d, n) ==
    IF n \notin DOMAIN d.primary /\ n \notin DOMAIN d.restore
    THEN Raise("FileNotFoundError")
    ELSE LET df == IF n \in DOMAIN d.primary THEN d.primary[n] ELSE d.restore[n]
         IN  IF MissingColumns(df) # <<>> THEN Raise("ValueError")
             ELSE Ok(PreprocessData(df))

\* the decimal digits of n are the leading digits of those of m
RECURSIVE IsDigitPrefix(_, _)
IsDigitPrefix(n, m) ==
    \/ n = m
    \/ m >= 10 /\ IsDigitPrefix(n, m \div 10)

\* df["Condition"].str.contains(f"Cycle\\s+{cycle_no}", case=False, na=False):
\* a substring search, so the label "Cycle 10" contains "Cycle 1"
LabelMatches(label, n) == label > 0 /\ n > 0 /\ IsDigitPrefix(n, label)

\* ToyoDataLoader._load_raw_data
ToyoLoadRawData(d) ==
    IF d.rawFile = <<>> THEN Raise("FileNotFoundError") ELSE Ok(d.rawFile[1])

\* the column mapping of _map_columns
StandardName(c) ==
    IF c = "Time" THEN "TimeMin" ELSE IF c = "Voltage" THEN "Vol" ELSE "Crate"

\* ToyoDataLoader._map_columns: rename, seconds to minutes
ToyoMapColumns(rawRows) ==
    Df({"Condition", "TimeMin", "Vol", "Crate"},
       [i \in 1..Len(rawRows) |->
           Row(rawRows[i].Time \div 60, rawRows[i].Voltage, rawRows[i].Current,
               {StandardName(c) : c \in rawRows[i].na})])

\* ToyoDataLoader.load_cycle on a loader whose cache is `cache`;
\* the result carries the cache the call leaves behind
ToyoLoadCycle(cache, d, n) ==
    LET loaded == IF cache = <<>> THEN ToyoLoadRawData(d) ELSE Ok(cache[1])
    IN  IF loaded.exc # "none"
        THEN [exc |-> loaded.exc, val |-> <<>>, cache |-> cache]
        ELSE LET raw == loaded.val
                 sel == SelectSeq(raw, LAMBDA r : LabelMatches(r.Condition, n))
                 df  == ToyoMapColumns(sel)
             IN  IF Len(sel) = 0
                 THEN [exc |-> "ValueError", val |-> <<>>, cache |-> <<raw>>]
                 ELSE IF MissingColumns(df) # <<>>
                 THEN [exc |-> "ValueError", val |-> <<>>, cache |-> <<raw>>]
                 ELSE [exc |-> "none", val |-> ToyoPreprocessData(df), cache |-> <<raw>>]

\* loader.load_cycle(data_path, cycle_no) for the loader variant k
LoadCycle(k, cache, d, n) ==
    IF k = "PNE"
    THEN [exc |-> PNELoadCycle(d, n).exc, val |-> PNELoadCycle(d, n).val, cache |-> cache]
    ELSE ToyoLoadCycle(cache, d, n)

\* -------------------------------------------------- CycleDataContainer
\* copy() left out: the caller gets the stored object itself
DfAlias(h, id) == [heap |-> h, id |-> id]

\* DataFrame.copy(): a new object with the same content.
\* The result is the heap after the call and the address of the copy.
DfCopy(h, id) == [heap |-> MapPut(h, NewId(h), h[id]), id |-> NewId(h)]

Call(op, args, exc, names, val) ==
    [op |-> op, args |-> args, exc |-> exc, names |-> names, val |-> val]

\* the tables stored in the container, by cycle number
Stored == [n \in DOMAIN cycles |-> obj[cycles[n]]]

\* drop the objects nobody refers to any more
Collect(h, cyc, hld) == Restrict(h, Range(cyc) \cup hld)

\* The loop of load_all_cycles from cycle number n on; st is the state the
\* loop works on: [cycles, keyOrder, obj, cache, exc].  Only
\* FileNotFoundError is caught; any other error ends the loop and propagates.
RECURSIVE LoadLoop(_, _, _, _, _)
LoadLoop(st, k, d, n, end) ==
    IF n > end \/ st.exc # "none" THEN st
    ELSE LET r == LoadCycle(k, st.cache, d, n)
         IN  IF r.exc = "none"
             THEN LoadLoop([cycles   |-> MapPut(st.cycles, n, n),
                            keyOrder |-> IF n \in DOMAIN st.cycles THEN st.keyOrder
                                         ELSE Append(st.keyOrder, n),
                            obj      |-> MapPut(st.obj, n, r.val),
                            cache    |-> r.cache,
                            exc      |-> "none"], k, d, n + 1, end)
             ELSE IF r.exc = "FileNotFoundError"
             THEN LoadLoop([st EXCEPT !.cache = r.cache], k, d, n + 1, end)
             ELSE [st EXCEPT !.cache = r.cache, !.exc = r.exc]

\* the log after a call that found the cache `before` and left it `after`:
\* _load_raw_data(path p) has read the export when the cache was filled
ReadLogged(log, before, after, p) ==
    IF before = <<>> /\ after # <<>> THEN Append(log, p) ELSE log

\* the number of the data path the container loads from
DirPath == CHOOSE p \in DOMAIN disk : disk[p] = dir

\* container.load_all_cycles(data_path, loader, cycle_range);
\* range is <<>> for cycle_range=None, else <<start, end>>
LoadAllCycles(range) ==
    LET rng == IF range = <<>> THEN GetAllCycles(dir) ELSE Ok(range)
    IN  IF rng.exc # "none"
        THEN /\ ret' = Call("load_all_cycles", range, rng.exc, <<>>, <<>>)
             /\ held' = {}
             /\ obj' = Collect(obj, cycles, {})
             /\ UNCHANGED <<dir, kind, rawCache, cycles, keyOrder, metadata, avars, lvars>>
        ELSE LET st == LoadLoop([cycles |-> cycles, keyOrder |-> keyOrder,
                                 obj |-> obj, cache |-> rawCache, exc |-> "none"],
                                kind, dir, rng.val[1], rng.val[2])
             IN  /\ cycles' = st.cycles
                 /\ keyOrder' = st.keyOrder
                 /\ rawCache' = st.cache
                 /\ held' = {}
                 /\ obj' = Collect(st.obj, st.cycles, {})
                 /\ metadata' = IF st.exc = "none"
                                THEN [data_path |-> dir.path, cycle_range |-> rng.val,
                                      loaded_cycles |-> st.keyOrder]
                                ELSE metadata
                 /\ ret' = Call("load_all_cycles", range, st.exc, <<>>, <<>>)
                 /\ ioLog' = ReadLogged(ioLog, rawCache, st.cache, DirPath)
                 /\ UNCHANGED <<dir, kind, avars, disk>>

\* clear() written without self._metadata.clear()
ClearCyclesOnly ==
    /\ cycles' = EmptyMap
    /\ keyOrder' = <<>>
    /\ held' = {}
    /\ obj' = EmptyMap
    /\ ret' = Call("clear", <<>>, "none", <<>>, <<>>)
    /\ UNCHANGED <<dir, kind, rawCache, metadata, avars, lvars>>

\* container.clear()
Clear ==
    /\ cycles' = EmptyMap
    /\ keyOrder' = <<>>
    /\ metadata' = EmptyMap
    /\ held' = {}
    /\ obj' = EmptyMap
    /\ ret' = Call("clear", <<>>, "none", <<>>, <<>>)
    /\ UNCHANGED <<dir, kind, rawCache, avars, lvars>>

\* get_cycle written with self._cycles.pop(cycle_no): the table leaves the container
GetCyclePop(n) ==
    IF n \notin DOMAIN cycles
    THEN /\ ret' = Call("get_cycle", <<n>>, "KeyError", <<n>>, <<>>)
         /\ held' = {}
         /\ obj' = Collect(obj, cycles, {})
         /\ UNCHANGED <<dir, kind, rawCache, cycles, keyOrder, metadata, avars, lvars>>
    ELSE /\ ret' = Call("get_cycle", <<n>>, "none", <<>>, <<obj[cycles[n]]>>)
         /\ held' = {cycles[n]}
         /\ cycles' = Restrict(cycles, DOMAIN cycles \ {n})
         /\ keyOrder' = SelectSeq(keyOrder, LAMBDA k : k # n)
         /\ obj' = Collect(obj, Restrict(cycles, DOMAIN cycles \ {n}), {cycles[n]})
         /\ UNCHANGED <<dir, kind, rawCache, metadata, avars, lvars>>

\* container.get_cycle(cycle_no)
GetCycle(n) ==
    IF n \notin DOMAIN cycles
    THEN /\ ret' = Call("get_cycle", <<n>>, "KeyError", <<n>>, <<>>)
         /\ held' = {}
         /\ obj' = Collect(obj, cycles, {})
         /\ UNCHANGED <<dir, kind, rawCache, cycles, keyOrder, metadata, avars, lvars>>
    ELSE LET c == DfCopy(Collect(obj, cycles, {}), cycles[n])
         IN  /\ ret' = Call("get_cycle", <<n>>, "none", <<>>, <<c.heap[c.id]>>)
             /\ held' = {c.id}
             /\ obj' = c.heap
             /\ UNCHANGED <<dir, kind, rawCache, cycles, keyOrder, metadata, avars, lvars>>

\* get_cycles giving up at the first cycle number that is not loaded
RECURSIVE GetCyclesLoopFirstMissing(_, _, _)
GetCyclesLoopFirstMissing(st, list, i) ==
    IF i > Len(list) THEN st
    ELSE IF list[i] \in DOMAIN cycles
    THEN LET c == DfCopy(st.heap, cycles[list[i]])
         IN  GetCyclesLoopFirstMissing([st EXCEPT !.heap = c.heap,
                                                  !.result = MapPut(st.result, list[i], c.id)],
                                       list, i + 1)
    ELSE [st EXCEPT !.missing = Append(st.missing, list[i])]

\* The loop of get_cycles over cycle_list from position i on;
\* st = [heap, result (cycle number -> address), missing]
RECURSIVE GetCyclesLoop(_, _, _)
GetCyclesLoop(st, list, i) ==
    IF i > Len(list) THEN st
    ELSE IF list[i] \in DOMAIN cycles
    THEN LET c == DfCopy(st.heap, cycles[list[i]])
         IN  GetCyclesLoop([st EXCEPT !.heap = c.heap,
                                      !.result = MapPut(st.result, list[i], c.id)],
                           list, i + 1)
    ELSE GetCyclesLoop([st EXCEPT !.missing = Append(st.missing, list[i])], list, i + 1)

\* container.get_cycles(cycle_list)
GetCycles(list) ==
    LET st == GetCyclesLoop([heap |-> Collect(obj, cycles, {}), result |-> EmptyMap,
                             missing |-> <<>>], list, 1)
    IN  IF st.missing # <<>>
        THEN /\ ret' = Call("get_cycles", list, "KeyError", st.missing, <<>>)
             /\ held' = {}
             /\ obj' = Collect(st.heap, cycles, {})
             /\ UNCHANGED <<dir, kind, rawCache, cycles, keyOrder, metadata, avars, lvars>>
        ELSE /\ ret' = Call("get_cycles", list, "none", <<>>,
                            [n \in DOMAIN st.result |-> st.heap[st.result[n]]])
             /\ held' = Range(st.result)
             /\ obj' = Collect(st.heap, cycles, Range(st.result))
             /\ UNCHANGED <<dir, kind, rawCache, cycles, keyOrder, metadata, avars, lvars>>

\* a float that may be NaN
NaN == [nan |-> TRUE, v |-> 0]

Num(v) == [nan |-> FALSE, v |-> v]

\* df["TimeMin"].max(): NaN for a column without rows
ColMax(rows) == IF Len(rows) = 0 THEN NaN ELSE Num(TimeMaxOf(rows))

\* cumulative_time > 0: False for NaN
GtZero(x) == ~x.nan /\ x.v > 0

\* get_cycle_range looping over range(start, end): the last cycle is left out
RECURSIVE RangeLoopExclusive(_, _, _)
RangeLoopExclusive(st, n, end) ==
    IF n >= end THEN st
    ELSE IF n \notin DOMAIN cycles THEN RangeLoopExclusive(st, n + 1, end)
    ELSE LET c  == DfCopy(st.heap, cycles[n])
             df == c.heap[c.id]
             shifted == IF "TimeMin" \in df.cols /\ GtZero(st.cum)
                        THEN Df(df.cols, ShiftTime(df.rows, st.cum.v))
                        ELSE df
         IN  RangeLoopExclusive([heap |-> [c.heap EXCEPT ![c.id] = shifted],
                                 dfs  |-> Append(st.dfs, c.id),
                                 cum  |-> IF "TimeMin" \in df.cols THEN ColMax(shifted.rows)
                                          ELSE st.cum],
                                n + 1, end)

\* The loop of get_cycle_range from cycle number n on;
\* st = [heap, dfs (addresses of the tables to merge), cum (cumulative_time)]
RECURSIVE RangeLoop(_, _, _)
RangeLoop(st, n, end) ==
    IF n > end THEN st
    ELSE IF n \notin DOMAIN cycles THEN RangeLoop(st, n + 1, end)
    ELSE LET c  == DfCopy(st.heap, cycles[n])
             df == c.heap[c.id]
             shifted == IF "TimeMin" \in df.cols /\ GtZero(st.cum)
                        THEN Df(df.cols, ShiftTime(df.rows, st.cum.v))
                        ELSE df
         IN  RangeLoop([heap |-> [c.heap EXCEPT ![c.id] = shifted],
                        dfs  |-> Append(st.dfs, c.id),
                        cum  |-> IF "TimeMin" \in df.cols THEN ColMax(shifted.rows)
                                 ELSE st.cum],
                       n + 1, end)

\* pd.concat(dfs, ignore_index=True)
RECURSIVE Concat(_, _)
Concat(h, dfs) ==
    IF dfs = <<>> THEN Df({}, <<>>)
    ELSE LET rest == Concat(h, Tail(dfs))
         IN  Df(h[Head(dfs)].cols \cup rest.cols, h[Head(dfs)].rows \o rest.rows)

\* container.get_cycle_range(start, end)
GetCycleRange(a, b) ==
    LET st == RangeLoop([heap |-> Collect(obj, cycles, {}), dfs |-> <<>>, cum |-> Num(0)],
                        a, b)
        id == NewId(st.heap)
        merged == Concat(st.heap, st.dfs)
    IN  IF st.dfs = <<>>
        THEN /\ ret' = Call("get_cycle_range", <<a, b>>, "ValueError", <<a, b>>, <<>>)
             /\ held' = {}
             /\ obj' = Collect(st.heap, cycles, {})
             /\ UNCHANGED <<dir, kind, rawCache, cycles, keyOrder, metadata, avars, lvars>>
        ELSE /\ ret' = Call("get_cycle_range", <<a, b>>, "none", <<>>, <<merged>>)
             /\ held' = {id}
             /\ obj' = Collect(MapPut(st.heap, id, merged), cycles, {id})
             /\ UNCHANGED <<dir, kind, rawCache, cycles, keyOrder, metadata, avars, lvars>>

\* The caller changes a table it was handed, in place: "drop" removes every
\* row (df.drop(df.index, inplace=True)), "set_time" overwrites the elapsed
\* time of the first row (df.loc[0, "TimeMin"] = MutTime).
CallerMutate(id, how) ==
    /\ id \in held
    /\ Len(obj[id].rows) > 0
    /\ how = "set_time" => obj[id].rows[1].TimeMin # MutTime
    /\ obj' = [obj EXCEPT ![id].rows =
                  IF how = "drop" THEN <<>> ELSE [@ EXCEPT ![1].TimeMin = MutTime]]
    /\ ret' = Call("caller_mutate", <<id>>, "none", <<>>, <<>>)
    /\ UNCHANGED <<dir, kind, rawCache, cycles, keyOrder, metadata, held, avars, lvars>>

\* ---------------------------------------------------------- data sources
CsvColumns == {"TimeMin", "Vol", "Crate"}

\* SaveData<n>.csv as the cycler wrote it: two samples, the later one first
FileTab(n) == Df(CsvColumns, <<Row(n, 4, 1, {}), Row(0, 4, 0 - 1, {})>>)

\* the older copy of SaveData<n>.csv kept under Restore/
RestoreTab(n) == Df(CsvColumns, <<Row(0, 3, 1, {})>>)

\* the rows of the raw export labelled "Cycle <m>"
LabelRows(m) == <<RawRow(m, 60 * m + 60, m, 1, {}), RawRow(m, 60 * m, m, 0 - 1, {})>>

RECURSIVE RawExport(_)
RawExport(labels) ==
    IF labels = {} THEN <<RawRow(0, 0, 4, 0, {})>>
    ELSE RawExport(labels \ {SetMax(labels)}) \o LabelRows(SetMax(labels))

CycleNumbers == 1..MaxCycle

PNEDirs ==
    {[path |-> "pne", pattern |-> TRUE, primary |-> [n \in P |-> FileTab(n)],
      restore |-> [n \in R |-> RestoreTab(n)], rawFile |-> <<>>] :
        P \in SUBSET CycleNumbers, R \in {{}, {MaxCycle - 1}, CycleNumbers}}

ToyoDirs ==
    {[path |-> "toyo", pattern |-> FALSE, primary |-> EmptyMap, restore |-> EmptyMap,
      rawFile |-> <<RawExport(L)>>] : L \in SUBSET (CycleNumbers \cup {MultiDigitLabel})}
    \cup {[path |-> "toyo", pattern |-> FALSE, primary |-> EmptyMap,
           restore |-> EmptyMap, rawFile |-> <<>>]}

\* an error: exception class and message; where it was raised
NoError == [exc |-> "none", msg |-> ""]

Fail(exc, msg) == [exc |-> exc, msg |-> msg]

Raised(e, where) == [exc |-> e.exc, msg |-> e.msg, where |-> where]

NoRaise == Raised(NoError, "")

\* no analyzer exists: the state of the analyzer variables in the
\* specifications of the container alone
NoAnalyzer ==
    /\ variant = "none"
    /\ config = <<>>
    /\ tsvFile = <<>>
    /\ store = <<>>
    /\ containers = <<>>
    /\ container = 0
    /\ tsv_data = <<>>
    /\ results = EmptyMap
    /\ pc = "none"
    /\ trace = <<>>
    /\ err = NoRaise
    /\ runs = 0

\* the state after CycleDataContainer() and DataLoaderFactory.create_loader(d),
\* d being one of the data paths on disk
ContainerOver(d, paths) ==
    /\ dir = d
    /\ kind = CreateLoader(d)
    /\ rawCache = <<>>
    /\ obj = EmptyMap
    /\ cycles = EmptyMap
    /\ keyOrder = <<>>
    /\ metadata = EmptyMap
    /\ held = {}
    /\ ret = Call("init", <<>>, "none", <<>>, <<>>)
    /\ disk = paths
    /\ ioLog = <<>>

\* the same with d the only data path
ContainerInit(d) == ContainerOver(d, <<d>>)

\* cycle_range arguments: None, or (start, end)
Ranges == {<<>>} \cup {r \in CycleNumbers \X CycleNumbers : r[1] <= r[2]}

RECURSIVE ListsUpTo(_, _)
ListsUpTo(S, k) ==
    IF k = 0 THEN {<<>>}
    ELSE ListsUpTo(S, k - 1) \cup {Append(l, x) : l \in ListsUpTo(S, k - 1), x \in S}

CycleLists == ListsUpTo(CycleNumbers, MaxListLen)

AskedCycles == CycleNumbers \cup {MultiDigitLabel}

Init == NoAnalyzer /\ \E d \in PNEDirs \cup ToyoDirs : ContainerInit(d)

Load == \E r \in Ranges : LoadAllCycles(r)

Get == \E n \in AskedCycles : GetCycle(n)

GetMany == \E l \in CycleLists : GetCycles(l)

Next == Load \/ Clear \/ Get \/ GetMany

Spec == Init /\ [][Next]_cvars

\* ------------------------------------------- reading a loaded container
\* SaveData files as the cycler wrote them: two samples out of time order,
\* one sample taken after the start, one sample without a voltage
SampleTables ==
    { Df(CsvColumns, <<Row(2, 4, 1, {}), Row(0, 4, 0 - 1, {})>>),
      Df(CsvColumns, <<Row(3, 4, 0 - 1, {})>>),
      Df(CsvColumns, <<Row(1, 0, 1, {"Vol"})>>) }

SampleDirs ==
    UNION {{[path |-> "pne", pattern |-> TRUE, primary |-> f, restore |-> EmptyMap,
             rawFile |-> <<>>] : f \in [P -> SampleTables]} : P \in SUBSET CycleNumbers}

InitRead == NoAnalyzer /\ \E d \in SampleDirs : ContainerInit(d)

LoadFolder == LoadAllCycles(<<>>)

GetRange == \E a \in CycleNumbers, b \in CycleNumbers : GetCycleRange(a, b)

Mutate == \E id \in held, how \in {"drop", "set_time"} : CallerMutate(id, how)

NextRead == LoadFolder \/ Clear \/ Get \/ GetMany \/ GetRange \/ Mutate

SpecRead == InitRead /\ [][NextRead]_cvars

\* ================================================================ analyzers
\* ------------------------------------------------------------------ numbers
\* Sample values (TimeMin, Vol, Crate) and capacities are integers; a float
\* that a division produces is the exact fraction num/den in lowest terms.
Abs(x) == IF x < 0 THEN 0 - x ELSE x

RECURSIVE GCD(_, _)
GCD(a, b) == IF b = 0 THEN a ELSE GCD(b, a % b)

\* n/d after division of both by g, the denominator made positive
Reduced(n, d, g) ==
    [num |-> IF d < 0 THEN 0 - (n \div g) ELSE n \div g, den |-> Abs(d) \div g]

Frac(n, d) == Reduced(n, d, GCD(Abs(n), Abs(d)))

FracAdd(a, b) == Frac(a.num * b.den + b.num * a.den, a.den * b.den)

FracSub(a, b) == Frac(a.num * b.den - b.num * a.den, a.den * b.den)

\* the product of x and y whose numerators and denominators have no common factor
FracMulReduced(x, y) == Frac(x.num * y.num, x.den * y.den)

FracMul(a, b) == FracMulReduced(Frac(a.num, b.den), Frac(b.num, a.den))

\* a / b for b # 0
FracDiv(a, b) == FracMul(a, Frac(b.den, b.num))

FracSquare(a) == FracMul(a, a)

RECURSIVE FracSum(_)
FracSum(q) == IF q = <<>> THEN Frac(0, 1) ELSE FracAdd(Head(q), FracSum(Tail(q)))

\* Series.mean() / np.mean of a column with at least one value
FracMean(q) == FracDiv(FracSum(q), Frac(Len(q), 1))

\* the sum of squared distances from m, over Len(q) - ddof
FracVarAbout(q, ddof, m) ==
    FracDiv(FracSum([i \in 1..Len(q) |-> FracSquare(FracSub(q[i], m))]),
            Frac(Len(q) - ddof, 1))

\* the variance of a column with ddof degrees of freedom removed
FracVar(q, ddof) == FracVarAbout(q, ddof, FracMean(q))

\* A standard deviation is kept as the fraction it is the square root of.
\* Series.std() (ddof=1) is NaN for a single value, np.std (ddof=0) is not.
SqrtOf(f) == [sqrt_of |-> f]

SeriesStd(q) == IF Len(q) < 2 THEN NaN ELSE SqrtOf(FracVar(q, 1))

NpStd(q) == SqrtOf(FracVar(q, 0))

\* a float the model carries without computing its value (p-value,
\* bounds of the confidence interval)
Opaque == [opaque |-> TRUE]

\* a column of integers as fractions
AsFracs(q) == [i \in 1..Len(q) |-> [num |-> q[i], den |-> 1]]

\* pd.DataFrame(list of dicts): a list without entries gives a table
\* without columns
DataFrameOf(cols, rows) == Df(IF rows = <<>> THEN {} ELSE cols, rows)

Column(df, name) == [i \in 1..Len(df.rows) |-> df.rows[i][name]]

\* ---------------------------------------------------- capacity derivation
\* df["TimeMin"].diff().fillna(0), at row i
TimeDiff(rows, i) == IF i = 1 THEN 0 ELSE rows[i].TimeMin - rows[i - 1].TimeMin

RECURSIVE SumSeq(_)
SumSeq(q) == IF q = <<>> THEN 0 ELSE Head(q) + SumSeq(Tail(q))

\* capacity_base of _calculate_cycle_capacity and get_capacity
CapacityBase(cfg) ==
    IF cfg.capacity.mode = "manual" THEN cfg.capacity.manual_capacity ELSE 58

\* abs(discharge["Crate"] * discharge["TimeDiff"]).sum()
DischargeSum(rows) ==
    SumSeq([i \in 1..Len(rows) |->
               IF rows[i].Crate < 0 THEN Abs(rows[i].Crate * TimeDiff(rows, i)) ELSE 0])

\* (charge["Crate"] * charge["TimeDiff"]).sum()
ChargeSum(rows) ==
    SumSeq([i \in 1..Len(rows) |->
               IF rows[i].Crate > 0 THEN rows[i].Crate * TimeDiff(rows, i) ELSE 0])

\* the result with the efficiency taken as charge over discharge
CapacityResultInverse(discharge_capacity, charge_capacity) ==
    [discharge_capacity |-> discharge_capacity,
     charge_capacity |-> charge_capacity,
     efficiency |-> IF discharge_capacity > 0
                    THEN Frac(charge_capacity * 100, discharge_capacity)
                    ELSE [num |-> 0, den |-> 1]]

\* the result of _calculate_cycle_capacity from the two capacities
CapacityResult(discharge_capacity, charge_capacity) ==
    [discharge_capacity |-> discharge_capacity,
     charge_capacity |-> charge_capacity,
     efficiency |-> IF charge_capacity > 0
                    THEN Frac(discharge_capacity * 100, charge_capacity)
                    ELSE [num |-> 0, den |-> 1]]

\* _calculate_cycle_capacity(df), the same code in the three analyzers
CalculateCycleCapacity(cfg, df) ==
    CapacityResult(DischargeSum(df.rows) * CapacityBase(cfg),
                   ChargeSum(df.rows) * CapacityBase(cfg))

\* (abs(df["Crate"]) * df["TimeDiff"]).cumsum()
CapacityCumulative(rows) ==
    [i \in 1..Len(rows) |->
        SumSeq([j \in 1..i |-> Abs(rows[j].Crate) * TimeDiff(rows, j)])]

\* the cumulative capacity as a share of a fixed capacity of 100
NormalizedByFixed(cum, max_capacity) ==
    [i \in 1..Len(cum) |-> Frac(cum[i] * 100, 100)]

\* Capacity_Cumulative / max_capacity * 100, or zeros
NormalizedBy(cum, max_capacity) ==
    [i \in 1..Len(cum) |->
        IF max_capacity > 0 THEN Frac(cum[i] * 100, max_capacity)
        ELSE [num |-> 0, den |-> 1]]

\* _normalize_capacity(df) for the charge or the discharge rows of a cycle
NormalizeCapacity(rows) ==
    IF Len(rows) = 0 THEN <<>>
    ELSE NormalizedBy(CapacityCumulative(rows), SetMax(Range(CapacityCumulative(rows))))

\* the columns TimeMin, Vol, Capacity_Normalized of one leg
ProfileRows(rows, normalized) ==
    [i \in 1..Len(rows) |-> [TimeMin |-> rows[i].TimeMin, Vol |-> rows[i].Vol,
                             Capacity_Normalized |-> normalized[i]]]

\* one leg of a voltage profile: the rows with their normalized capacity
ProfileLeg(rows) == ProfileRows(rows, NormalizeCapacity(rows))

\* the discharge and the charge profile of one cycle table
VoltageProfile(df) ==
    [discharge |-> ProfileLeg(SelectSeq(df.rows, LAMBDA r : r.Crate < 0)),
     charge |-> ProfileLeg(SelectSeq(df.rows, LAMBDA r : r.Crate > 0))]

\* ------------------------------------------------------------------- DCIR
RECURSIVE InsertSorted(_, _)
InsertSorted(q, x) ==
    IF q = <<>> THEN <<x>>
    ELSE IF x <= Head(q) THEN <<x>> \o q
    ELSE <<Head(q)>> \o InsertSorted(Tail(q), x)

RECURSIVE SortInts(_)
SortInts(q) == IF q = <<>> THEN <<>> ELSE InsertSorted(SortInts(Tail(q)), Head(q))

\* 20 * the 0.95 quantile of the sorted values v, by linear interpolation
\* between the order statistics next to position 0.95 * (Len(v) - 1)
QuantileOfSorted(v, pos) ==
    20 * v[(pos \div 20) + 1]
    + (pos % 20) * (v[IF (pos \div 20) + 1 < Len(v) THEN (pos \div 20) + 2
                      ELSE (pos \div 20) + 1] - v[(pos \div 20) + 1])

\* 20 * Series.quantile(0.95) of a column with at least one value
Quantile95x20(q) == QuantileOfSorted(SortInts(q), 19 * (Len(q) - 1))

\* df["Crate"].diff().abs() from the second row on (the first is NaN)
CurrentDiff(rows) ==
    [i \in 1..(Len(rows) - 1) |-> Abs(rows[i + 1].Crate - rows[i].Crate)]

\* the rows whose CurrentDiff is above the threshold
PulsePoints(diffs, threshold20) ==
    {i \in 2..(Len(diffs) + 1) : 20 * diffs[i - 1] > threshold20}

\* abs(v_diff / i_diff) * 1000 with a vanishing i_diff taken as 1
IrOfDiffsFloor(v_diff, i_diff) ==
    Frac(Abs(v_diff) * 1000, IF i_diff = 0 THEN 1 ELSE Abs(i_diff))

\* abs(v_diff / i_diff) * 1000, or 0.0 when abs(i_diff) < 0.01
IrOfDiffs(v_diff, i_diff) ==
    IF i_diff = 0 THEN [num |-> 0, den |-> 1] ELSE Frac(Abs(v_diff) * 1000, Abs(i_diff))

\* the resistance over the first pulse, from pulse_start to pulse_end
IrOfPulse(rows, pulse_start, pulse_end) ==
    IrOfDiffs(rows[pulse_end].Vol - rows[pulse_start].Vol,
              rows[pulse_end].Crate - rows[pulse_start].Crate)

IrOfPulsePoints(rows, pulse) ==
    IF Cardinality(pulse) < 2 THEN [num |-> 0, den |-> 1]
    ELSE IrOfPulse(rows, SetMin(pulse),
                   IF SetMin(pulse) + 10 < Len(rows) THEN SetMin(pulse) + 10 ELSE Len(rows))

\* BaseAnalyzer.calculate_ir(df)
CalculateIr(df) ==
    IF Len(df.rows) < 2 THEN [num |-> 0, den |-> 1]
    ELSE IrOfPulsePoints(df.rows,
                         PulsePoints(CurrentDiff(df.rows), Quantile95x20(CurrentDiff(df.rows))))

\* ---------------------------------------------------------- AnalysisConfig
\* config.path: use_tsv, tsv_file (<<>> for None, else <<file name>>);
\* config.capacity: mode, c_rate (in tenths), manual_capacity;
\* config.cycle / config.profile: <<>> for None, else <<record>>; a list that
\* is None or empty, and a range that is None, are <<>>; voltages in tenths.
CycleNumbersBad(l) == \E i \in 1..Len(l) : l[i] <= 0

CycleRangeBad(r) == r # <<>> /\ (r[1] <= 0 \/ r[2] <= 0 \/ r[1] > r[2])

\* AnalysisConfig.validate()
Validate(cfg) ==
    IF cfg.path.use_tsv /\ cfg.path.tsv_file = <<>>
    THEN Fail("ValueError", "TSV mode needs a TSV file")
    ELSE IF cfg.capacity.mode = "auto_crate" /\ cfg.capacity.c_rate <= 0
    THEN Fail("ValueError", "C-rate must be greater than 0")
    ELSE IF cfg.capacity.mode = "manual" /\ cfg.capacity.manual_capacity <= 0
    THEN Fail("ValueError", "capacity must be greater than 0")
    ELSE IF cfg.cycle # <<>> /\ CycleNumbersBad(cfg.cycle[1].cycle_numbers)
    THEN Fail("ValueError", "cycle numbers must be positive")
    ELSE IF cfg.cycle # <<>> /\ CycleRangeBad(cfg.cycle[1].cycle_range)
    THEN Fail("ValueError", "cycle range is not valid")
    ELSE IF cfg.profile # <<>> /\ cfg.profile[1].voltage_min >= cfg.profile[1].voltage_max
    THEN Fail("ValueError", "voltage minimum must be below the maximum")
    ELSE IF cfg.profile # <<>> /\ CycleNumbersBad(cfg.profile[1].cycle_numbers)
    THEN Fail("ValueError", "cycle numbers must be positive")
    ELSE IF cfg.profile # <<>> /\ CycleRangeBad(cfg.profile[1].cycle_range)
    THEN Fail("ValueError", "cycle range is not valid")
    ELSE NoError

\* ------------------------------------------- the container as analyzers see it
\* c is the content of a container: cycle number -> DataFrame
ContainerLen(c) == Cardinality(DOMAIN c)

HasCycle(c, n) == n \in DOMAIN c

GetLoadedCycleNumbers(c) == SortedSeq(DOMAIN c)

\* ------------------------------------------------------------ BaseAnalyzer
\* prepare() without the check of the container: an analyzer bound to a
\* container without cycles goes on to analyze
BasePrepareNoLenCheck(cfg, c) == Validate(cfg)

\* the check of the container that follows config.validate() = v
CheckContainer(v, c) ==
    IF v.exc # "none" THEN v
    ELSE IF ContainerLen(c) = 0
    THEN Fail("ValueError", "Container is empty. Load cycles first.")
    ELSE NoError

\* BaseAnalyzer.prepare()
BasePrepare(cfg, c) == CheckContainer(Validate(cfg), c)

\* BaseAnalyzer.postprocess()
BasePostprocess(res) ==
    IF DOMAIN res = {} THEN Fail("ValueError", "Analysis produced no results")
    ELSE NoError

\* the outcome of analyze or postprocess: the error, and self.results as
\* the call leaves it
Outcome(e, res) == [exc |-> e.exc, msg |-> e.msg, results |-> res]

\* ------------------------------------------------- IndividualCycleAnalyzer
IndividualColumns == {"Cycle", "Discharge_Capacity", "Charge_Capacity", "Efficiency", "DCIR"}

\* IndividualCycleAnalyzer.__init__ after super().__init__
IndividualInit(cfg) ==
    IF cfg.cycle = <<>> \/ cfg.cycle[1].cycle_numbers = <<>>
    THEN Fail("ValueError", "IndividualCycleAnalyzer requires cycle_numbers in config")
    ELSE NoError

\* one entry of summary_data
IndividualRow(cycle_no, capacity_result, dcir) ==
    [Cycle |-> cycle_no,
     Discharge_Capacity |-> capacity_result.discharge_capacity,
     Charge_Capacity |-> capacity_result.charge_capacity,
     Efficiency |-> capacity_result.efficiency,
     DCIR |-> dcir]

\* self.results of analyze; present: the requested cycles the container has
IndividualResults(cfg, c, cycle_numbers, present) ==
    [summary |->
         DataFrameOf(IndividualColumns,
                     [i \in 1..Len(present) |->
                         IndividualRow(present[i],
                                       CalculateCycleCapacity(cfg, c[present[i]]),
                                       CalculateIr(c[present[i]]))]),
     voltage_profiles |-> [n \in SeqToSet(present) |-> VoltageProfile(c[n])],
     cycle_numbers |-> cycle_numbers]

\* IndividualCycleAnalyzer.analyze()
IndividualAnalyze(cfg, c) ==
    Outcome(NoError,
            IndividualResults(cfg, c, cfg.cycle[1].cycle_numbers,
                              SelectSeq(cfg.cycle[1].cycle_numbers,
                                        LAMBDA n : HasCycle(c, n))))

\* capacity fade rate of postprocess: first against last summary row
FadeRate(first_capacity, last_capacity) ==
    IF first_capacity > 0
    THEN Frac((first_capacity - last_capacity) * 100, first_capacity)
    ELSE [num |-> 0, den |-> 1]

\* stats of postprocess before capacity_fade_rate is added
IndividualStats(summary_df) ==
    [mean_discharge_capacity |->
         FracMean(AsFracs(Column(summary_df, "Discharge_Capacity"))),
     mean_charge_capacity |-> FracMean(AsFracs(Column(summary_df, "Charge_Capacity"))),
     mean_efficiency |-> FracMean(Column(summary_df, "Efficiency")),
     mean_dcir |-> FracMean(Column(summary_df, "DCIR")),
     std_dcir |-> SeriesStd(Column(summary_df, "DCIR"))]

\* stats with capacity_fade_rate when the summary has more than one row
WithFadeRate(stats, rows) ==
    IF Len(rows) > 1
    THEN MapPut(stats, "capacity_fade_rate",
                FadeRate(rows[1].Discharge_Capacity, rows[Len(rows)].Discharge_Capacity))
    ELSE stats

\* IndividualCycleAnalyzer.postprocess() after super().postprocess() = base
IndividualStatistics(base, res) ==
    IF base.exc # "none" THEN Outcome(base, res)
    ELSE IF "Discharge_Capacity" \notin res.summary.cols
    THEN Outcome(Fail("KeyError", "Discharge_Capacity"), res)
    ELSE Outcome(NoError,
                 MapPut(res, "statistics",
                        WithFadeRate(IndividualStats(res.summary), res.summary.rows)))

\* IndividualCycleAnalyzer.postprocess()
IndividualPostprocess(res) == IndividualStatistics(BasePostprocess(res), res)

\* ------------------------------------------------ ReliabilityCycleAnalyzer
ReliabilityColumns == {"Cycle", "Discharge_Capacity", "Charge_Capacity", "Efficiency"}

\* the value or the error of a helper
Val(v) == [exc |-> "none", msg |-> "", val |-> v]

Err(exc, msg) == [exc |-> exc, msg |-> msg, val |-> <<>>]

\* n * sum(x * y) - sum(x) * sum(y)
CrossSum(x, y) ==
    Len(x) * SumSeq([i \in 1..Len(x) |-> x[i] * y[i]]) - SumSeq(x) * SumSeq(y)

\* slope and r_value^2 from the three sums of squares; sxx # 0
RegressionOf(sxy, sxx, syy) ==
    [slope |-> Frac(sxy, sxx),
     r_squared |-> IF syy = 0 THEN [num |-> 0, den |-> 1]
                   ELSE FracMul(Frac(sxy, sxx), Frac(sxy, syy)),
     p_value |-> Opaque]

\* scipy.stats.linregress(x, y): slope and the square of r_value; p_value
\* is not computed.  Identical x values are a ValueError.
Linregress(x, y) ==
    IF CrossSum(x, x) = 0 THEN Err("ValueError", "all x values are identical")
    ELSE Val(RegressionOf(CrossSum(x, y), CrossSum(x, x), CrossSum(y, y)))

\* the fade taken relative to the final capacity
RelativeFadeOfFinal(initial_capacity, final_capacity) ==
    IF final_capacity > 0
    THEN Frac((initial_capacity - final_capacity) * 100, final_capacity)
    ELSE [num |-> 0, den |-> 1]

\* (absolute_fade / initial_capacity * 100) if initial_capacity > 0 else 0
RelativeFade(initial_capacity, final_capacity) ==
    IF initial_capacity > 0
    THEN Frac((initial_capacity - final_capacity) * 100, initial_capacity)
    ELSE [num |-> 0, den |-> 1]

\* the result of _analyze_capacity_fade for two or more cycles
FadeOf(initial_capacity, final_capacity, relative_fade, cycle_count, reg) ==
    IF reg.exc # "none" THEN reg
    ELSE Val([initial_capacity |-> initial_capacity,
              final_capacity |-> final_capacity,
              absolute_fade |-> initial_capacity - final_capacity,
              relative_fade |-> relative_fade,
              fade_per_cycle |-> FracDiv(relative_fade, [num |-> cycle_count, den |-> 1]),
              linear_slope |-> reg.val.slope,
              r_squared |-> reg.val.r_squared,
              p_value |-> reg.val.p_value])

\* ReliabilityCycleAnalyzer._analyze_capacity_fade(capacity_df)
AnalyzeCapacityFade(capacity_df) ==
    IF Len(capacity_df.rows) < 2
    THEN Val([initial_capacity |-> 0, final_capacity |-> 0, absolute_fade |-> 0,
              relative_fade |-> [num |-> 0, den |-> 1],
              fade_per_cycle |-> [num |-> 0, den |-> 1]])
    ELSE FadeOf(capacity_df.rows[1].Discharge_Capacity,
                capacity_df.rows[Len(capacity_df.rows)].Discharge_Capacity,
                RelativeFade(capacity_df.rows[1].Discharge_Capacity,
                             capacity_df.rows[Len(capacity_df.rows)].Discharge_Capacity),
                Len(capacity_df.rows),
                Linregress(Column(capacity_df, "Cycle"),
                           Column(capacity_df, "Discharge_Capacity")))

\* capacity_cv = std / mean * 100, kept as the square root of
\* variance * 10000 / mean^2
CapacityCv(mean, var) ==
    IF mean.num > 0
    THEN SqrtOf(FracMul(FracDiv(var, FracSquare(mean)), [num |-> 10000, den |-> 1]))
    ELSE SqrtOf([num |-> 0, den |-> 1])

\* the metrics from the capacities, their mean and variance, the efficiencies
MetricsOf(caps, mean, var, efficiencies) ==
    [capacity_mean |-> mean,
     capacity_std |-> SqrtOf(var),
     capacity_min |-> SetMin(SeqToSet(caps)),
     capacity_max |-> SetMax(SeqToSet(caps)),
     capacity_cv |-> CapacityCv(mean, var),
     efficiency_mean |-> FracMean(efficiencies),
     efficiency_std |-> NpStd(efficiencies)]

\* the 95% confidence interval, for more than one capacity
WithConfidenceInterval(metrics, n) ==
    IF n > 1
    THEN MapPut(MapPut(metrics, "capacity_ci_lower", Opaque), "capacity_ci_upper", Opaque)
    ELSE metrics

\* ReliabilityCycleAnalyzer._calculate_statistical_metrics(capacity_df)
CalculateStatisticalMetrics(capacity_df) ==
    IF "Discharge_Capacity" \notin capacity_df.cols
    THEN Err("KeyError", "Discharge_Capacity")
    ELSE Val(WithConfidenceInterval(
                 MetricsOf(Column(capacity_df, "Discharge_Capacity"),
                           FracMean(AsFracs(Column(capacity_df, "Discharge_Capacity"))),
                           FracVar(AsFracs(Column(capacity_df, "Discharge_Capacity")), 0),
                           Column(capacity_df, "Efficiency")),
                 Len(capacity_df.rows)))

\* the prediction with remaining_cycles left signed (no max(0, ...))
LifecycleOfSigned(eol_capacity, predicted_eol_cycle, current_cycle) ==
    [eol_capacity |-> eol_capacity,
     predicted_eol_cycle |-> predicted_eol_cycle,
     current_cycle |-> current_cycle,
     remaining_cycles |-> predicted_eol_cycle - current_cycle]

\* the prediction from the end-of-life cycle number
LifecycleOf(eol_capacity, predicted_eol_cycle, current_cycle) ==
    [eol_capacity |-> eol_capacity,
     predicted_eol_cycle |-> predicted_eol_cycle,
     current_cycle |-> current_cycle,
     remaining_cycles |-> IF predicted_eol_cycle - current_cycle > 0
                          THEN predicted_eol_cycle - current_cycle ELSE 0]

\* int(f) for f >= 0
Truncate(f) == f.num \div f.den

\* ReliabilityCycleAnalyzer._predict_lifecycle(capacity_df, fade_analysis)
PredictLifecycle(capacity_df, fade_analysis) ==
    IF "linear_slope" \notin DOMAIN fade_analysis
    THEN Err("KeyError", "linear_slope")
    ELSE IF fade_analysis.initial_capacity <= 0 \/ fade_analysis.linear_slope.num >= 0
    THEN Val([eol_capacity |-> 0, predicted_eol_cycle |-> 0, remaining_cycles |-> 0])
    ELSE Val(LifecycleOf(
                 Frac(fade_analysis.initial_capacity * 8, 10),
                 Truncate(FracDiv(FracSub(Frac(fade_analysis.initial_capacity * 8, 10),
                                          [num |-> fade_analysis.initial_capacity, den |-> 1]),
                                  fade_analysis.linear_slope)),
                 capacity_df.rows[Len(capacity_df.rows)].Cycle))

\* one entry of capacity_data
ReliabilityRow(cycle_no, capacity_result) ==
    [Cycle |-> cycle_no,
     Discharge_Capacity |-> capacity_result.discharge_capacity,
     Charge_Capacity |-> capacity_result.charge_capacity,
     Efficiency |-> capacity_result.efficiency]

\* capacity_df; present: the cycles to analyse that the container has
CapacityData(cfg, c, present) ==
    DataFrameOf(ReliabilityColumns,
                [i \in 1..Len(present) |->
                    ReliabilityRow(present[i], CalculateCycleCapacity(cfg, c[present[i]]))])

\* the last step of analyze: the prediction, then self.results
ReliabilityPredict(capacity_df, fade_analysis, statistical_metrics, lifecycle_prediction, res) ==
    IF lifecycle_prediction.exc # "none" THEN Outcome(lifecycle_prediction, res)
    ELSE Outcome(NoError,
                 [capacity_data |-> capacity_df,
                  fade_analysis |-> fade_analysis.val,
                  statistical_metrics |-> statistical_metrics.val,
                  lifecycle_prediction |-> lifecycle_prediction.val])

\* steps 2 to 4 of analyze, each of which may raise
ReliabilitySteps(capacity_df, fade_analysis, statistical_metrics, res) ==
    IF fade_analysis.exc # "none" THEN Outcome(fade_analysis, res)
    ELSE IF statistical_metrics.exc # "none" THEN Outcome(statistical_metrics, res)
    ELSE ReliabilityPredict(capacity_df, fade_analysis, statistical_metrics,
                            PredictLifecycle(capacity_df, fade_analysis.val), res)

\* analyze from capacity_df on
ReliabilityOf(capacity_df, res) ==
    ReliabilitySteps(capacity_df, AnalyzeCapacityFade(capacity_df),
                     CalculateStatisticalMetrics(capacity_df), res)

\* the cycle numbers analyze works on
ReliabilityCycles(cfg, c) ==
    IF cfg.cycle # <<>> /\ cfg.cycle[1].cycle_numbers # <<>>
    THEN cfg.cycle[1].cycle_numbers
    ELSE GetLoadedCycleNumbers(c)

\* ReliabilityCycleAnalyzer.analyze(); res is self.results before the call
ReliabilityAnalyze(cfg, c, res) ==
    ReliabilityOf(CapacityData(cfg, c, SelectSeq(ReliabilityCycles(cfg, c),
                                                 LAMBDA n : HasCycle(c, n))),
                  res)

\* the grade condition with the limits included (<=)
WithinGradeInclusive(relative_fade, capacity_cv, fade_limit, cv_limit) ==
    /\ relative_fade.num <= fade_limit * relative_fade.den
    /\ capacity_cv.sqrt_of.num <= cv_limit * cv_limit * capacity_cv.sqrt_of.den

\* relative_fade < fade_limit and capacity_cv < cv_limit
WithinGrade(relative_fade, capacity_cv, fade_limit, cv_limit) ==
    /\ relative_fade.num < fade_limit * relative_fade.den
    /\ capacity_cv.sqrt_of.num < cv_limit * cv_limit * capacity_cv.sqrt_of.den

\* the grade of postprocess
Grade(relative_fade, capacity_cv) ==
    IF WithinGrade(relative_fade, capacity_cv, 5, 2) THEN "Excellent"
    ELSE IF WithinGrade(relative_fade, capacity_cv, 10, 5) THEN "Good"
    ELSE IF WithinGrade(relative_fade, capacity_cv, 20, 10) THEN "Fair"
    ELSE "Poor"

\* ReliabilityCycleAnalyzer.postprocess() after super().postprocess() = base
ReliabilityGrade(base, res) ==
    IF base.exc # "none" THEN Outcome(base, res)
    ELSE Outcome(NoError,
                 MapPut(res, "reliability_grade",
                        Grade(res.fade_analysis.relative_fade,
                              res.statistical_metrics.capacity_cv)))

\* ReliabilityCycleAnalyzer.postprocess()
ReliabilityPostprocess(res) == ReliabilityGrade(BasePostprocess(res), res)

\* ----------------------------------------------------- LinkedCycleAnalyzer
LinkedColumns ==
    {"Path", "Path_Name", "Local_Cycle", "Global_Cycle", "Discharge_Capacity",
     "Charge_Capacity", "Efficiency", "DCIR"}

\* cyclepath in self.containers
PathIn(cs, p) == \E i \in 1..Len(cs) : cs[i].path = p

\* self.containers[cyclepath]
ContainerOf(cs, p) == cs[CHOOSE i \in 1..Len(cs) : cs[i].path = p].id

\* LinkedCycleAnalyzer.__init__: next(iter(containers.values())) first
LinkedInit(cfg, cs) ==
    IF cs = <<>> THEN Fail("StopIteration", "")
    ELSE IF ~cfg.path.use_tsv \/ cfg.path.tsv_file = <<>>
    THEN Fail("ValueError", "LinkedCycleAnalyzer requires TSV file in config")
    ELSE NoError

\* the outcome of prepare: the error, and tsv_data as the call leaves it
Prepared(e, tsv) == [exc |-> e.exc, msg |-> e.msg, tsv_data |-> tsv]

\* LinkedCycleAnalyzer.prepare() after super().prepare() = base
LinkedReadTsv(base, file, tsv) ==
    IF base.exc # "none" THEN Prepared(base, tsv)
    ELSE IF file = <<>>
    THEN Prepared(Fail("FileNotFoundError", "TSV file not found"), tsv)
    ELSE IF {"cyclepath", "cyclename"} \ file[1].cols # {}
    THEN Prepared(Fail("ValueError", "Missing columns in TSV"), file)
    ELSE Prepared(NoError, file)

\* LinkedCycleAnalyzer.prepare()
LinkedPrepare(cfg, c, file, tsv) == LinkedReadTsv(BasePrepare(cfg, c), file, tsv)

\* the local variables of analyze before the loop over the manifest rows
LinkedStart ==
    [cumulative_cycle_offset |-> 0, all_summary_data |-> <<>>,
     path_summaries |-> EmptyMap, voltage_profiles |-> EmptyMap]

\* one summary_row
LinkedSummaryRow(row, local_cycle_no, offset, capacity_result, dcir) ==
    [Path |-> row.cyclepath,
     Path_Name |-> row.cyclename,
     Local_Cycle |-> local_cycle_no,
     Global_Cycle |-> offset + local_cycle_no,
     Discharge_Capacity |-> capacity_result.discharge_capacity,
     Charge_Capacity |-> capacity_result.charge_capacity,
     Efficiency |-> capacity_result.efficiency,
     DCIR |-> dcir]

\* path_summary: one row per loaded cycle of the path, in ascending order
PathSummary(cfg, c, row, offset, loaded_cycles) ==
    [i \in 1..Len(loaded_cycles) |->
        LinkedSummaryRow(row, loaded_cycles[i], offset,
                         CalculateCycleCapacity(cfg, c[loaded_cycles[i]]),
                         CalculateIr(c[loaded_cycles[i]]))]

\* the end of the loop body with the offset set to the largest cycle number
\* of the path, whatever the offset was
LinkedRecordLastMax(st, cyclepath, c, path_summary) ==
    [cumulative_cycle_offset |->
         IF DOMAIN c # {} THEN SetMax(DOMAIN c) ELSE st.cumulative_cycle_offset,
     all_summary_data |-> st.all_summary_data \o path_summary,
     path_summaries |->
         MapPut(st.path_summaries, cyclepath, DataFrameOf(LinkedColumns, path_summary)),
     voltage_profiles |->
         MapPut(st.voltage_profiles, cyclepath, [n \in DOMAIN c |-> VoltageProfile(c[n])])]

\* the end of the loop body: the path is recorded, the offset moves on
LinkedRecord(st, cyclepath, c, path_summary) ==
    [cumulative_cycle_offset |->
         IF DOMAIN c # {} /\ SetMax(DOMAIN c) > st.cumulative_cycle_offset
         THEN SetMax(DOMAIN c) ELSE st.cumulative_cycle_offset,
     all_summary_data |-> st.all_summary_data \o path_summary,
     path_summaries |->
         MapPut(st.path_summaries, cyclepath, DataFrameOf(LinkedColumns, path_summary)),
     voltage_profiles |->
         MapPut(st.voltage_profiles, cyclepath, [n \in DOMAIN c |-> VoltageProfile(c[n])])]

\* one pass of the loop body for a path whose container holds c
LinkedPath(st, row, cfg, c) ==
    LinkedRecord(st, row.cyclepath, c,
                 PathSummary(cfg, c, row, st.cumulative_cycle_offset,
                             GetLoadedCycleNumbers(c)))

\* the loop body without the test "cyclepath not in self.containers": a
\* path without a container is handled as a path without loaded cycles
LinkedRowNoSkip(st, row, cfg, cs, sto) ==
    LinkedPath(st, row, cfg,
               IF PathIn(cs, row.cyclepath) THEN sto[ContainerOf(cs, row.cyclepath)]
               ELSE EmptyMap)

\* the body of the loop of analyze for one manifest row
LinkedRow(st, row, cfg, cs, sto) ==
    IF ~PathIn(cs, row.cyclepath) THEN st
    ELSE LinkedPath(st, row, cfg, sto[ContainerOf(cs, row.cyclepath)])

\* the loop of analyze over the manifest rows
RECURSIVE LinkedLoop(_, _, _, _, _)
LinkedLoop(st, rows, cfg, cs, sto) ==
    IF rows = <<>> THEN st
    ELSE LinkedLoop(LinkedRow(st, Head(rows), cfg, cs, sto), Tail(rows), cfg, cs, sto)

\* self.results of analyze from the locals the loop leaves
LinkedResults(st, tsv) ==
    [summary |-> DataFrameOf(LinkedColumns, st.all_summary_data),
     path_summaries |-> st.path_summaries,
     voltage_profiles |-> st.voltage_profiles,
     tsv_data |-> tsv[1]]

\* LinkedCycleAnalyzer.analyze()
LinkedAnalyze(cfg, cs, sto, tsv) ==
    Outcome(NoError, LinkedResults(LinkedLoop(LinkedStart, tsv[1].rows, cfg, cs, sto), tsv))

\* stats of postprocess
LinkedStats(summary_df, tsv) ==
    [total_paths |-> Len(tsv[1].rows),
     total_cycles |-> Len(summary_df.rows),
     mean_discharge_capacity |->
         FracMean(AsFracs(Column(summary_df, "Discharge_Capacity"))),
     mean_efficiency |-> FracMean(Column(summary_df, "Efficiency")),
     mean_dcir |-> FracMean(Column(summary_df, "DCIR"))]

\* path_stats of postprocess
LinkedPathStats(path_summaries) ==
    [p \in DOMAIN path_summaries |->
        [cycle_count |-> Len(path_summaries[p].rows),
         mean_discharge_capacity |->
             FracMean(AsFracs(Column(path_summaries[p], "Discharge_Capacity"))),
         mean_efficiency |-> FracMean(Column(path_summaries[p], "Efficiency"))]]

\* LinkedCycleAnalyzer.postprocess() after super().postprocess() = base
LinkedStatistics(base, res, tsv) ==
    IF base.exc # "none" THEN Outcome(base, res)
    ELSE IF "Discharge_Capacity" \notin res.summary.cols
    THEN Outcome(Fail("KeyError", "Discharge_Capacity"), res)
    ELSE IF \E p \in DOMAIN res.path_summaries :
               "Discharge_Capacity" \notin res.path_summaries[p].cols
    THEN Outcome(Fail("KeyError", "Discharge_Capacity"), res)
    ELSE Outcome(NoError,
                 MapPut(MapPut(res, "statistics", LinkedStats(res.summary, tsv)),
                        "path_statistics", LinkedPathStats(res.path_summaries)))

\* LinkedCycleAnalyzer.postprocess()
LinkedPostprocess(res, tsv) == LinkedStatistics(BasePostprocess(res), res, tsv)

\* ------------------------------------------------------------- the run
\* the constructor of the analyzer class
AnalyzerInit(v, cfg, cs) ==
    IF v = "individual" THEN IndividualInit(cfg)
    ELSE IF v = "linked" THEN LinkedInit(cfg, cs)
    ELSE NoError

\* the constructor ends with the outcome r
Constructed(r) ==
    /\ pc' = IF r.exc = "none" THEN "constructed" ELSE "ctor_raised"
    /\ err' = IF r.exc = "none" THEN NoRaise ELSE Raised(r, "__init__")
    /\ results' = EmptyMap
    /\ UNCHANGED <<variant, config, tsvFile, store, containers, container,
                   tsv_data, trace, runs, cvars, lvars>>

\* AnalyzerClass(config, container) / LinkedCycleAnalyzer(config, containers)
Construct ==
    /\ pc = "new"
    /\ Constructed(AnalyzerInit(variant, config, containers))

\* prepare() of the analyzer class
Prepare(v, cfg, c, file, tsv) ==
    IF v = "linked" THEN LinkedPrepare(cfg, c, file, tsv)
    ELSE Prepared(BasePrepare(cfg, c), tsv)

\* analyze() of the analyzer class
Analyze(v, cfg, cs, sto, c, tsv, res) ==
    IF v = "individual" THEN IndividualAnalyze(cfg, c)
    ELSE IF v = "linked" THEN LinkedAnalyze(cfg, cs, sto, tsv)
    ELSE ReliabilityAnalyze(cfg, c, res)

\* postprocess() of the analyzer class
Postprocess(v, res, tsv) ==
    IF v = "individual" THEN IndividualPostprocess(res)
    ELSE IF v = "linked" THEN LinkedPostprocess(res, tsv)
    ELSE ReliabilityPostprocess(res)

\* prepare has ended with the outcome r
PrepareDone(r) ==
    /\ pc' = IF r.exc = "none" THEN "prepared" ELSE "raised"
    /\ err' = IF r.exc = "none" THEN NoRaise ELSE Raised(r, "prepare")
    /\ tsv_data' = r.tsv_data

\* analyze or postprocess has ended with the outcome r
PhaseDone(r, where, after) ==
    /\ pc' = IF r.exc = "none" THEN after ELSE "raised"
    /\ err' = IF r.exc = "none" THEN NoRaise ELSE Raised(r, where)
    /\ results' = r.results

\* run() is called and executes self.prepare()
RunPrepare ==
    /\ pc \in {"constructed", "returned", "raised"}
    /\ runs < MaxRuns
    /\ runs' = runs + 1
    /\ trace' = <<"prepare">>
    /\ PrepareDone(Prepare(variant, config, store[container], tsvFile, tsv_data))
    /\ UNCHANGED <<variant, config, tsvFile, store, containers, container,
                   results, cvars, lvars>>

\* run() executes self.analyze()
RunAnalyze ==
    /\ pc = "prepared"
    /\ trace' = Append(trace, "analyze")
    /\ PhaseDone(Analyze(variant, config, containers, store, store[container],
                         tsv_data, results), "analyze", "analyzed")
    /\ UNCHANGED <<variant, config, tsvFile, store, containers, container,
                   tsv_data, runs, cvars, lvars>>

\* run() executes self.postprocess() and returns self.results
RunPostprocess ==
    /\ pc = "analyzed"
    /\ trace' = Append(trace, "postprocess")
    /\ PhaseDone(Postprocess(variant, results, tsv_data), "postprocess", "returned")
    /\ UNCHANGED <<variant, config, tsvFile, store, containers, container,
                   tsv_data, runs, cvars, lvars>>

\* the owner of a container calls clear() on it between two runs
ClearContainer(id) ==
    /\ pc \in {"constructed", "returned", "raised"}
    /\ store[id] # EmptyMap
    /\ store' = [store EXCEPT ![id] = EmptyMap]
    /\ UNCHANGED <<variant, config, tsvFile, containers, container, tsv_data,
                   results, pc, trace, err, runs, cvars, lvars>>

\* ------------------------------------------------------ analyzer inputs
\* the table of cycle n as a container holds it: sorted by time, no null
\* cell; charge up to minute 6, discharge until minute 12 - n
CycleTable(n) ==
    Df(CsvColumns, <<Row(0, 3, 1, {}), Row(6, 4, 1, {}), Row(7, 4, 0 - 1, {}),
                     Row(12 - n, 3, 0 - 1, {})>>)

\* the content of a container that has loaded the cycles of S
LoadedTables(S) == [n \in S |-> CycleTable(n)]

PathConfigs ==
    {[use_tsv |-> TRUE, tsv_file |-> <<>>],
     [use_tsv |-> TRUE, tsv_file |-> <<"links.tsv">>],
     [use_tsv |-> FALSE, tsv_file |-> <<>>]}

CapacityConfigs ==
    {[mode |-> "auto_crate", c_rate |-> r, manual_capacity |-> 58] : r \in {0, 2}}
    \cup {[mode |-> "manual", c_rate |-> 2, manual_capacity |-> m] : m \in {0, 50}}

\* cycle lists: loaded cycles, a cycle no container holds, a non-positive one
CycleConfigs ==
    {<<>>}
    \cup {<<[cycle_numbers |-> l, cycle_range |-> <<>>]>> :
             l \in {<<>>, <<1>>, <<1, MaxLocal>>, <<MaxLocal + 1>>, <<0>>}}
    \cup {<<[cycle_numbers |-> <<>>, cycle_range |-> r]>> :
             r \in {<<1, MaxLocal>>, <<MaxLocal, 1>>, <<0, 1>>}}

ProfileConfigs ==
    {<<>>, <<[voltage_min |-> 47, voltage_max |-> 25, cycle_numbers |-> <<>>,
              cycle_range |-> <<>>]>>}

Configs ==
    {[path |-> p, capacity |-> c, cycle |-> y, profile |-> f] :
        p \in PathConfigs, c \in CapacityConfigs, y \in CycleConfigs, f \in ProfileConfigs}

\* a manifest file with both columns; the display name of a row is its position
RECURSIVE Manifests(_, _)
Manifests(paths, k) ==
    IF k = 0 THEN {<<>>}
    ELSE Manifests(paths, k - 1)
         \cup {Append(m, [cyclepath |-> p, cyclename |-> Len(m) + 1]) :
                  m \in Manifests(paths, k - 1), p \in paths}

ManifestFile(rows) == <<Df({"cyclepath", "cyclename"}, rows)>>

\* a directory without data: the container variables in the
\* specifications of the analyzers
NoDir ==
    [path |-> "", pattern |-> FALSE, primary |-> EmptyMap, restore |-> EmptyMap,
     rawFile |-> <<>>]

\* the analyzer variables before the constructor is called
AnalyzerNew(v, cfg, file, sto, cs) ==
    /\ variant = v
    /\ config = cfg
    /\ tsvFile = file
    /\ store = sto
    /\ containers = cs
    /\ container = IF v = "linked" THEN (IF cs = <<>> THEN 0 ELSE cs[1].id) ELSE 1
    /\ tsv_data = <<>>
    /\ results = EmptyMap
    /\ pc = "new"
    /\ trace = <<>>
    /\ err = NoRaise
    /\ runs = 0

LoadedSets == {1..k : k \in 0..MaxLocal} \cup {{MaxLocal}}

\* one container for the individual and the reliability analyzer
InitSingle ==
    \E v \in {"individual", "reliability"}, cfg \in Configs, S \in LoadedSets :
        AnalyzerNew(v, cfg, <<>>, <<LoadedTables(S)>>, <<>>)

\* the linked analyzer over no, one or two containers; the manifest file is
\* missing, lacks the cyclename column, or has both columns
InitLinkedRun ==
    \E cfg \in Configs,
       file \in {<<>>, <<Df({"cyclepath"}, <<>>)>>}
                \cup {ManifestFile(m) : m \in Manifests({"A", "X"}, 1)
                                            \cup Manifests({"X"}, MaxLocal)},
       k \in 0..2, S \in {{}, 1..MaxLocal} :
        AnalyzerNew("linked", cfg, file,
                    [i \in 1..k |-> LoadedTables(S)],
                    [i \in 1..k |-> [path |-> <<"A", "B">>[i], id |-> i]])

InitRun == ContainerInit(NoDir) /\ (InitSingle \/ InitLinkedRun)

NextRun ==
    Construct \/ RunPrepare \/ RunAnalyze \/ RunPostprocess \/ ClearContainer(container)

SpecRun == InitRun /\ [][NextRun]_vars

\* the linked analyzer with a valid configuration over three containers
LinkedConfig ==
    [path |-> [use_tsv |-> TRUE, tsv_file |-> <<"links.tsv">>],
     capacity |-> [mode |-> "auto_crate", c_rate |-> 2, manual_capacity |-> 58],
     cycle |-> <<>>, profile |-> <<>>]

KnownPaths == <<"A", "B", "C">>

InitLinked ==
    /\ ContainerInit(NoDir)
    /\ \E m \in Manifests(SeqToSet(KnownPaths) \cup {"X"}, MaxRows),
          sto \in [1..Len(KnownPaths) -> {LoadedTables(S) : S \in LoadedSets}] :
           AnalyzerNew("linked", LinkedConfig, ManifestFile(m), sto,
                       [i \in 1..Len(KnownPaths) |-> [path |-> KnownPaths[i], id |-> i]])

SpecLinked == InitLinked /\ [][NextRun]_vars

\* ---------------------------------------------- capacity series as inputs
\* A cycle table in time order: charge at 1C from minute 0 to minute ch (no
\* second charge sample when ch = 0), then discharge at 1C for d[1] minutes
\* with a sample halfway (no discharge sample at all when d = <<>>).
CapacityTable(ch, d) ==
    Df(CsvColumns,
       <<Row(0, 3, 1, {})>>
       \o (IF ch > 0 THEN <<Row(ch, 4, 1, {})>> ELSE <<>>)
       \o (IF d = <<>> THEN <<>>
           ELSE <<Row(ch, 4, 0 - 1, {}), Row(ch + (d[1] \div 2), 4, 0 - 1, {}),
                  Row(ch + d[1], 3, 0 - 1, {})>>))

\* discharge durations: none, zero, and capacities between 75 and 100
Discharges == {<<>>, <<0>>, <<75>>, <<85>>, <<90>>, <<98>>, <<100>>}

\* manual capacity 1 mAh: a capacity is the duration of the leg in minutes;
\* the linked analyzer reads its manifest, the others name cycles 1..k
FadeConfig(v, k) ==
    [path |-> IF v = "linked" THEN [use_tsv |-> TRUE, tsv_file |-> <<"links.tsv">>]
              ELSE [use_tsv |-> FALSE, tsv_file |-> <<>>],
     capacity |-> [mode |-> "manual", c_rate |-> 2, manual_capacity |-> 1],
     cycle |-> IF v = "linked" THEN <<>>
               ELSE <<[cycle_numbers |-> [i \in 1..k |-> i], cycle_range |-> <<>>]>>,
     profile |-> <<>>]

\* the manifest of the linked analyzer: one row, naming the container's path
FadeManifest == ManifestFile(<<[cyclepath |-> "A", cyclename |-> 1]>>)

FadePaths == <<[path |-> "A", id |-> 1]>>

\* an analyzer over one container that holds cycles 1..k, all of them analysed
InitFade ==
    /\ ContainerInit(NoDir)
    /\ \E v \in {"individual", "reliability", "linked"}, ch \in {0, 100},
          ds \in UNION {[1..k -> Discharges] : k \in 2..MaxFadeCycles} :
           AnalyzerNew(v, FadeConfig(v, Len(ds)),
                       IF v = "linked" THEN FadeManifest ELSE <<>>,
                       <<[n \in 1..Len(ds) |-> CapacityTable(ch, ds[n])]>>,
                       IF v = "linked" THEN FadePaths ELSE <<>>)

SpecFade == InitFade /\ [][NextRun]_vars

\* ======================================================== loaders at work
\* one loader object (kind, rawCache) used on the data paths of disk, by
\* direct calls and by the container, which loads from the first path
\* ------------------------------------------------------------ the calls
\* the loader made by create_loader_by_type(cycler_type)
LoaderByType(cycler_type) ==
    IF cycler_type = "pne" THEN Ok("PNE")
    ELSE IF cycler_type = "toyo" THEN Ok("TOYO")
    ELSE Raise("ValueError")

\* the caller's loader variable is assigned the loader r.val, a new object
\* with an empty cache, unless the factory raised
LoaderMade(op, arg, r) ==
    /\ kind' = IF r.exc = "none" THEN r.val ELSE kind
    /\ rawCache' = IF r.exc = "none" THEN <<>> ELSE rawCache
    /\ ioLog' = IF r.exc = "none" THEN <<>> ELSE ioLog
    /\ ret' = Call(op, <<arg>>, r.exc, <<>>, IF r.exc = "none" THEN <<r.val>> ELSE <<>>)
    /\ UNCHANGED <<dir, obj, cycles, keyOrder, metadata, held, avars, disk>>

\* loader = DataLoaderFactory.create_loader(path p)
CreateLoaderFor(p) == LoaderMade("create_loader", p, Ok(CreateLoader(disk[p])))

\* loader = DataLoaderFactory.create_loader_by_type(t)
CreateLoaderByType(t) == LoaderMade("create_loader_by_type", t, LoaderByType(t))

\* get_all_cycles(path p)
GetAllCyclesOf(p) ==
    /\ ret' = Call("get_all_cycles", <<p>>, GetAllCycles(disk[p]).exc, <<>>,
                   GetAllCycles(disk[p]).val)
    /\ UNCHANGED <<dir, kind, rawCache, obj, cycles, keyOrder, metadata, held,
                   avars, lvars>>

\* a call of loader.load_cycle has ended with r
LoadCycleDone(p, n, r) ==
    /\ ReadLogged(ioLog, rawCache, r.cache, p) # ioLog => Len(ioLog) < MaxIoLog
    /\ rawCache' = r.cache
    /\ ioLog' = ReadLogged(ioLog, rawCache, r.cache, p)
    /\ ret' = Call("load_cycle", <<p, n>>, r.exc, <<>>,
                   IF r.exc = "none" THEN <<r.val>> ELSE <<>>)
    /\ UNCHANGED <<dir, kind, obj, cycles, keyOrder, metadata, held, avars, disk>>

\* loader.load_cycle(path p, n), called directly
LoaderLoadCycle(p, n) == LoadCycleDone(p, n, LoadCycle(kind, rawCache, disk[p], n))

\* ToyoDataLoader.clear_cache()
ClearCache ==
    /\ kind = "TOYO"
    /\ Len(ioLog) < MaxIoLog
    /\ rawCache' = <<>>
    /\ ioLog' = Append(ioLog, 0)
    /\ ret' = Call("clear_cache", <<>>, "none", <<>>, <<>>)
    /\ UNCHANGED <<dir, kind, obj, cycles, keyOrder, metadata, held, avars, disk>>

\* ------------------------------------------------------------ data paths
PathNames == <<"p1", "p2">>

\* The rows of the raw export of path p that are labelled "Cycle <m>", the
\* later sample first; the voltage p tells the paths apart.
PathRows(p, m) == <<RawRow(m, 60 * m + 60, p, 1, {}), RawRow(m, 60 * m, p, 0 - 1, {})>>

\* a sample of cycle 1 with an empty cell
NullRow(p, cell) == <<RawRow(1, 0, p, 1, {cell})>>

\* raw exports of path p: cycle 1 alone, with cycle 2, with a cycle of two
\* digits, with an empty time cell, with an empty voltage cell
Exports(p) ==
    {<<RawRow(0, 0, p, 0, {})>> \o PathRows(p, 1) \o more :
        more \in {<<>>, PathRows(p, 2), PathRows(p, MultiDigitLabel),
                  NullRow(p, "Time"), NullRow(p, "Voltage")}}

\* SaveData<n>.csv of path p, the later sample first, then the extra rows
PathFile(p, more) ==
    Df(CsvColumns, <<Row(2, p, 1, {}), Row(0, p, 0 - 1, {})>> \o more)

\* the directories path p may be: consolidated exports, none at all, and
\* folders with a Pattern subfolder and SaveData files, one with an empty
\* time cell and one with an empty voltage cell
ToyoPaths(p) ==
    {[path |-> PathNames[p], pattern |-> FALSE, primary |-> EmptyMap,
      restore |-> EmptyMap, rawFile |-> f] : f \in {<<>>} \cup {<<x>> : x \in Exports(p)}}

PNEPaths(p) ==
    {[path |-> PathNames[p], pattern |-> TRUE,
      primary |-> [n \in 1..2 |-> PathFile(p, IF n = 1 THEN more ELSE <<>>)],
      restore |-> EmptyMap, rawFile |-> <<>>] :
        more \in {<<>>, <<Row(0, p, 1, {"TimeMin"})>>, <<Row(1, p, 1, {"Vol"})>>}}

\* folders that hold both kinds of data: SaveData files next to an export
\* with cycles 1 and 10, with and without the Pattern subfolder
MixedPaths(p) ==
    {[path |-> PathNames[p], pattern |-> b,
      primary |-> [n \in 1..2 |-> PathFile(p, <<>>)], restore |-> EmptyMap,
      rawFile |-> <<<<RawRow(0, 0, p, 0, {})>> \o PathRows(p, 1)
                      \o PathRows(p, MultiDigitLabel)>>] : b \in BOOLEAN}

\* a second path next to the first: an export with cycles 1 and 2, or a folder
SecondPaths ==
    {d \in ToyoPaths(2) : d.rawFile # <<>> /\ Len(d.rawFile[1]) = 5
                             /\ d.rawFile[1][5].Condition = 2}
    \cup {d \in PNEPaths(2) : Len(d.primary[1].rows) = 2}

\* the values handed to create_loader_by_type: CyclerType.PNE,
\* CyclerType.TOYO, and a value that is neither
CyclerValues == {"pne", "toyo", "other"}

LoadRanges == {<<>>, <<1, 1>>, <<1, 2>>, <<MultiDigitLabel, MultiDigitLabel>>}

\* a new container and the loader made for the first path
InitLoad ==
    /\ NoAnalyzer
    /\ \E d1 \in ToyoPaths(1) \cup PNEPaths(1) \cup MixedPaths(1), d2 \in SecondPaths :
           ContainerOver(d1, <<d1, d2>>)

MakeLoader == \E p \in DOMAIN disk : CreateLoaderFor(p)

MakeLoaderByType == \E t \in CyclerValues : CreateLoaderByType(t)

ListCycles == \E p \in DOMAIN disk : GetAllCyclesOf(p)

LoadOne == \E p \in DOMAIN disk, n \in 1..2 \cup {MultiDigitLabel} : LoaderLoadCycle(p, n)

LoadContainer == Len(ioLog) < MaxIoLog /\ \E r \in LoadRanges : LoadAllCycles(r)

NextLoad ==
    MakeLoader \/ MakeLoaderByType \/ ListCycles \/ LoadOne \/ ClearCache \/ LoadContainer

SpecLoad == InitLoad /\ [][NextLoad]_vars

\* ====================================================== capacity in a name
\* A path is the sequence of its characters.
Digits == {"1", "2"}

Separators == {"-", "."}

\* the characters of the paths: two digits, the two separators, the letters
\* of the unit
Chars == Digits \cup Separators \cup {"m", "A", "h"}

\* "mAh" stands in s from position i on
IsUnit(s, i) ==
    /\ i >= 1
    /\ i + 2 <= Len(s)
    /\ SubSeq(s, i, i + 2) = <<"m", "A", "h">>

\* the k characters of s from position i on are digits
AllDigits(s, i, k) ==
    /\ i >= 1
    /\ i + k - 1 <= Len(s)
    /\ \A j \in i..(i + k - 1) : s[j] \in Digits

\* The ways (\d+([-.]\d+)?)mAh matches at position i: <<k1, k2>> for k1
\* digits, then either "mAh" (k2 = 0) or a separator, k2 digits and "mAh".
Groups(s, i) ==
    {g \in (1..Len(s)) \X (0..Len(s)) :
        /\ AllDigits(s, i, g[1])
        /\ g[2] = 0 => IsUnit(s, i + g[1])
        /\ g[2] > 0 => /\ i + g[1] <= Len(s)
                       /\ s[i + g[1]] \in Separators
                       /\ AllDigits(s, i + g[1] + 1, g[2])
                       /\ IsUnit(s, i + g[1] + 1 + g[2])}

\* the way the matcher takes: as many digits as possible, and the separator
\* with its digits rather than without
Greedy(G) ==
    CHOOSE g \in G : \A h \in G : g[1] > h[1] \/ (g[1] = h[1] /\ g[2] >= h[2])

\* int() of a string of digits
RECURSIVE NumberOf(_)
NumberOf(ds) ==
    IF ds = <<>> THEN 0
    ELSE 10 * NumberOf(SubSeq(ds, 1, Len(ds) - 1)) + (IF ds[Len(ds)] = "1" THEN 1 ELSE 2)

RECURSIVE PowerOfTen(_)
PowerOfTen(k) == IF k = 0 THEN 1 ELSE 10 * PowerOfTen(k - 1)

\* the digits on both sides of the separator read as one whole number
FloatOfDigits(s, i, g) ==
    Frac(NumberOf(SubSeq(s, i, i + g[1] - 1)
                  \o SubSeq(s, i + g[1] + 1, i + g[1] + g[2])), 1)

\* float(match.group(1).replace("-", ".")): the digits before the separator
\* are the whole part, the digits behind it the decimals
FloatOf(s, i, g) ==
    Frac(NumberOf(SubSeq(s, i, i + g[1] - 1)
                  \o SubSeq(s, i + g[1] + 1, i + g[1] + g[2])),
         PowerOfTen(g[2]))

\* re.search: the match at the first position that has one
MatchStarts(s) == {i \in 1..Len(s) : Groups(s, i) # {}}

\* name_capacity(filepath): <<>> for None, else <<the capacity>>
NameCapacity(s) ==
    IF MatchStarts(s) = {} THEN <<>>
    ELSE <<FloatOf(s, SetMin(MatchStarts(s)), Greedy(Groups(s, SetMin(MatchStarts(s)))))>>

\* the paths name_capacity is called with
Names == UNION {[1..k -> Chars] : k \in 0..MaxNameLen}

\* a data path named s
NamedDir(s) ==
    [path |-> s, pattern |-> FALSE, primary |-> EmptyMap, restore |-> EmptyMap,
     rawFile |-> <<>>]

InitName == NoAnalyzer /\ \E s \in Names : ContainerInit(NamedDir(s))

\* capacity = name_capacity(data_path), as get_capacity of a loader calls it
NameCapacityOf ==
    /\ ret.op = "init"
    /\ ret' = Call("name_capacity", <<dir.path>>, "none", <<>>, NameCapacity(dir.path))
    /\ UNCHANGED <<dir, kind, rawCache, obj, cycles, keyOrder, metadata, held,
                   avars, lvars>>

SpecName == InitName /\ [][NameCapacityOf]_vars

\* ==================================================== AnalysisConfigBuilder
\* The builder makes one AnalysisConfig object in __init__ and assigns to its
\* fields; build() returns that object itself.  The variable config is the
\* content of this one object, which the builder, the caller of build() and
\* the analyzer made from it all refer to.  pc = "building" until build()
\* has returned the configuration.  Of the configuration the fields that
\* validate() and the analyzers read are carried.
\* ------------------------------------------------------------ cycle texts
\* A text is the sequence of its characters.
\* s.split(sep): the fields between the separators
RECURSIVE SplitAt(_, _)
SplitAt(s, sep) ==
    IF \A i \in 1..Len(s) : s[i] # sep THEN <<s>>
    ELSE <<SubSeq(s, 1, SetMin({i \in 1..Len(s) : s[i] = sep}) - 1)>>
         \o SplitAt(SubSeq(s, SetMin({i \in 1..Len(s) : s[i] = sep}) + 1, Len(s)), sep)

\* s.split(): the runs of characters between white space
Words(s) == SelectSeq(SplitAt(s, " "), LAMBDA w : w # <<>>)

\* s.strip()
RECURSIVE Strip(_)
Strip(s) ==
    IF s # <<>> /\ s[1] = " " THEN Strip(Tail(s))
    ELSE IF s # <<>> /\ s[Len(s)] = " " THEN Strip(SubSeq(s, 1, Len(s) - 1))
    ELSE s

\* int(w) succeeds
IsInt(w) == w # <<>> /\ \A i \in 1..Len(w) : w[i] \in Digits

\* a, b = map(int, fields): exactly two fields, both numbers
IntPairOf(fields) ==
    IF Len(fields) = 2 /\ IsInt(fields[1]) /\ IsInt(fields[2])
    THEN Val(<<NumberOf(fields[1]), NumberOf(fields[2])>>)
    ELSE Err("ValueError", "not two integers")

\* list(range(a, b + 1))
RangeList(a, b) == [i \in 1..(b - a + 1) |-> a + i - 1]

\* the numbers one step of convert_steplist adds to steplist
StepNumbers(step, pair) ==
    IF \E i \in 1..Len(step) : step[i] = "-"
    THEN (IF pair.exc # "none" THEN pair ELSE Val(RangeList(pair.val[1], pair.val[2])))
    ELSE IF IsInt(step) THEN Val(<<NumberOf(step)>>)
    ELSE Err("ValueError", "invalid literal for int()")

\* steplist extended by the numbers of one step
StepsAdded(steplist, numbers) ==
    IF steplist.exc # "none" THEN steplist
    ELSE IF numbers.exc # "none" THEN numbers
    ELSE Val(steplist.val \o numbers.val)

\* the loop of convert_steplist over the steps
RECURSIVE StepLoop(_, _)
StepLoop(steplist, steps) ==
    IF steps = <<>> THEN steplist
    ELSE StepLoop(StepsAdded(steplist,
                             StepNumbers(Head(steps), IntPairOf(SplitAt(Head(steps), "-")))),
                  Tail(steps))

\* convert_steplist(stepnum)
ConvertSteplist(stepnum) == StepLoop(Val(<<>>), Words(stepnum))

\* parse_cycle_range(cycle_input)
ParseCycleRange(cycle_input) ==
    IF \A i \in 1..Len(cycle_input) : cycle_input[i] # "-"
    THEN Err("ValueError", "Range format required")
    ELSE IntPairOf(SplitAt(Strip(cycle_input), "-"))

\* cycle_range and cycle_numbers as with_cycle_config and with_profile_config
\* take them from the text of gui.stepnum; <<>> is None
CycleSelection(cycle_input, cycle_range, cycle_numbers) ==
    IF (\E i \in 1..Len(cycle_input) : cycle_input[i] = "-")
       /\ (\A i \in 1..Len(cycle_input) : cycle_input[i] # " ")
    THEN (IF cycle_range.exc # "none" THEN cycle_range
          ELSE Val([cycle_numbers |-> <<>>, cycle_range |-> cycle_range.val]))
    ELSE IF cycle_numbers.exc # "none" THEN cycle_numbers
    ELSE Val([cycle_numbers |-> cycle_numbers.val, cycle_range |-> <<>>])

\* float(widget.text()): the text of a number field is <<>> when it is not
\* a number and <<v>> when it reads as v
ToFloat(text) == IF text = <<>> THEN Err("ValueError", "could not convert") ELSE Val(text[1])

\* -------------------------------------------------------------- the calls
\* AnalysisConfigBuilder.__init__: PathConfig(), CapacityConfig()
BuilderConfig ==
    [path |-> [use_tsv |-> TRUE, tsv_file |-> <<>>],
     capacity |-> [mode |-> "auto_crate", c_rate |-> 2, manual_capacity |-> 58],
     cycle |-> <<>>, profile |-> <<>>]

\* a builder call has ended: cfg is the configuration object as the call
\* leaves it, r its outcome
BuilderCalled(op, gui, cfg, r) ==
    /\ pc \in {"building", "new", "constructed", "ctor_raised", "returned", "raised"}
    /\ config' = cfg
    /\ ret' = Call(op, <<gui>>, r.exc, <<>>, <<>>)
    /\ UNCHANGED <<dir, kind, rawCache, obj, cycles, keyOrder, metadata, held, lvars>>
    /\ UNCHANGED <<variant, tsvFile, store, containers, container, tsv_data, results,
                   pc, trace, err, runs>>

\* self.config.capacity of from_gui_widgets
GuiCapacity(gui) ==
    IF gui.inicaprate
    THEN (IF ToFloat(gui.ratetext).exc # "none" THEN ToFloat(gui.ratetext)
          ELSE Val([mode |-> "auto_crate", c_rate |-> ToFloat(gui.ratetext).val,
                    manual_capacity |-> 58]))
    ELSE IF ToFloat(gui.capacitytext).exc # "none" THEN ToFloat(gui.capacitytext)
    ELSE Val([mode |-> "manual", c_rate |-> 2,
              manual_capacity |-> ToFloat(gui.capacitytext).val])

\* The configuration after from_gui_widgets: the path is assigned first,
\* then the capacity unless float() raises.  _get_tsv_file gives "", which
\* counts as no file, like None.
GuiApplied(cfg, gui, capacity) ==
    [cfg EXCEPT !.path = [use_tsv |-> gui.chk_cyclepath, tsv_file |-> <<>>],
                !.capacity = IF capacity.exc = "none" THEN capacity.val ELSE @]

\* builder.from_gui_widgets(gui)
FromGuiWidgets(gui) ==
    BuilderCalled("from_gui_widgets", gui, GuiApplied(config, gui, GuiCapacity(gui)),
                  GuiCapacity(gui))

\* self.config.cycle = CycleConfig(...) unless the text did not parse
CycleApplied(cfg, sel) ==
    IF sel.exc # "none" THEN cfg ELSE [cfg EXCEPT !.cycle = <<sel.val>>]

\* builder.with_cycle_config(gui)
WithCycleConfig(gui) ==
    LET sel == CycleSelection(gui.stepnum, ParseCycleRange(gui.stepnum),
                              ConvertSteplist(gui.stepnum))
    IN  BuilderCalled("with_cycle_config", gui, CycleApplied(config, sel), sel)

\* self.config.profile = ProfileConfig(...) unless the text did not parse
ProfileApplied(cfg, gui, sel) ==
    IF sel.exc # "none" THEN cfg
    ELSE [cfg EXCEPT !.profile = <<[voltage_min |-> gui.volrngyhl,
                                    voltage_max |-> gui.volrngyll,
                                    cycle_numbers |-> sel.val.cycle_numbers,
                                    cycle_range |-> sel.val.cycle_range]>>]

\* builder.with_profile_config(gui)
WithProfileConfig(gui) ==
    LET sel == CycleSelection(gui.stepnum, ParseCycleRange(gui.stepnum),
                              ConvertSteplist(gui.stepnum))
    IN  BuilderCalled("with_profile_config", gui, ProfileApplied(config, gui, sel), sel)

\* builder.build(): validate() raises, or self.config itself is returned
Build ==
    /\ pc \in {"building", "new", "constructed", "ctor_raised", "returned", "raised"}
    /\ ret' = Call("build", <<>>, Validate(config).exc, <<>>,
                   IF Validate(config).exc = "none" THEN <<config>> ELSE <<>>)
    /\ pc' = IF pc = "building" /\ Validate(config).exc = "none" THEN "new" ELSE pc
    /\ UNCHANGED <<dir, kind, rawCache, obj, cycles, keyOrder, metadata, held, lvars>>
    /\ UNCHANGED <<variant, config, tsvFile, store, containers, container, tsv_data,
                   results, trace, err, runs>>

\* ------------------------------------------------------------- GUI inputs
\* the widgets from_gui_widgets reads: the manifest box checked or not, and
\* a C-rate of 0.2, a C-rate that is no number, a capacity of 0 or of 50
BasicWidgets ==
    {[chk_cyclepath |-> b, inicaprate |-> c[1], ratetext |-> c[2], capacitytext |-> c[3]] :
        b \in BOOLEAN,
        c \in {<<TRUE, <<2>>, <<>>>>, <<TRUE, <<>>, <<>>>>,
               <<FALSE, <<>>, <<0>>>>, <<FALSE, <<>>, <<50>>>>}}

\* texts of gui.stepnum: "", "1", "1-2", "2-1", "1-", "1 1-2"
StepTexts ==
    {<<>>, <<"1">>, <<"1", "-", "2">>, <<"2", "-", "1">>, <<"1", "-">>,
     <<"1", " ", "1", "-", "2">>}

\* the widgets with_cycle_config reads
CycleWidgets == [stepnum : StepTexts]

\* the widgets with_profile_config reads; voltages in tenths
ProfileWidgets == [stepnum : {<<"1">>}, volrngyhl : {25, 47}, volrngyll : {47}]

\* A new builder; the analyzer that will be made from the configuration it
\* returns, over a container that holds cycles 1..MaxLocal.
InitBuild ==
    /\ ContainerInit(NoDir)
    /\ variant \in {"individual", "reliability"}
    /\ config = BuilderConfig
    /\ tsvFile = <<>>
    /\ store = <<LoadedTables(1..MaxLocal)>>
    /\ containers = <<>>
    /\ container = 1
    /\ tsv_data = <<>>
    /\ results = EmptyMap
    /\ pc = "building"
    /\ trace = <<>>
    /\ err = NoRaise
    /\ runs = 0

FromGui == \E gui \in BasicWidgets : FromGuiWidgets(gui)

WithCycle == \E gui \in CycleWidgets : WithCycleConfig(gui)

WithProfile == \E gui \in ProfileWidgets : WithProfileConfig(gui)

NextBuild ==
    FromGui \/ WithCycle \/ WithProfile \/ Build
    \/ Construct \/ RunPrepare \/ RunAnalyze \/ RunPostprocess

SpecBuild == InitBuild /\ [][NextBuild]_vars

\* ================================================== accessors of the results
\* A read accessor of the analyzer of class v has ended with r; res is
\* self.results as the call leaves it.  Accessors are called on an analyzer
\* that is not inside run().
AccessorCalled(v, op, args, r, res) ==
    /\ variant = v
    /\ pc \in {"constructed", "returned", "raised"}
    /\ ret' = Call(op, args, r.exc, <<>>, IF r.exc = "none" THEN <<r.val>> ELSE <<>>)
    /\ results' = res
    /\ UNCHANGED <<dir, kind, rawCache, obj, cycles, keyOrder, metadata, held, lvars>>
    /\ UNCHANGED <<variant, config, tsvFile, store, containers, container, tsv_data,
                   pc, trace, err, runs>>

\* self.results.get(key, default)
ResultsGet(res, key, default) == IF key \in DOMAIN res THEN res[key] ELSE default

\* IndividualCycleAnalyzer.get_summary_table(): the stored table itself
GetSummaryTable ==
    AccessorCalled("individual", "get_summary_table", <<>>,
                   Val(ResultsGet(results, "summary", Df({}, <<>>))), results)

\* get_voltage_profile from the voltage_profiles of the results
VoltageProfileOf(voltage_profiles, cycle_no, profile_type) ==
    IF cycle_no \notin DOMAIN voltage_profiles THEN Err("KeyError", "Cycle not found in results")
    ELSE IF profile_type \notin {"discharge", "charge"}
    THEN Err("ValueError", "profile_type must be 'discharge' or 'charge'")
    ELSE Val(voltage_profiles[cycle_no][profile_type])

\* IndividualCycleAnalyzer.get_voltage_profile(cycle_no, profile_type)
GetVoltageProfile(cycle_no, profile_type) ==
    AccessorCalled("individual", "get_voltage_profile", <<cycle_no, profile_type>>,
                   VoltageProfileOf(ResultsGet(results, "voltage_profiles", EmptyMap),
                                    cycle_no, profile_type),
                   results)

\* get_path_summary from the path_summaries of the results
PathSummaryOf(path_summaries, path) ==
    IF path \notin DOMAIN path_summaries THEN Err("KeyError", "Path not found")
    ELSE Val(path_summaries[path])

\* LinkedCycleAnalyzer.get_path_summary(path)
GetPathSummary(path) ==
    AccessorCalled("linked", "get_path_summary", <<path>>,
                   PathSummaryOf(ResultsGet(results, "path_summaries", EmptyMap), path),
                   results)

\* sort_values("Global_Cycle"): insertion of each row behind the rows whose
\* global cycle number is not larger
RECURSIVE InsertByGlobalCycle(_, _)
InsertByGlobalCycle(rows, r) ==
    IF rows = <<>> THEN <<r>>
    ELSE IF rows[Len(rows)].Global_Cycle <= r.Global_Cycle THEN Append(rows, r)
    ELSE Append(InsertByGlobalCycle(SubSeq(rows, 1, Len(rows) - 1), r), rows[Len(rows)])

RECURSIVE SortByGlobalCycle(_)
SortByGlobalCycle(rows) ==
    IF rows = <<>> THEN <<>>
    ELSE InsertByGlobalCycle(SortByGlobalCycle(SubSeq(rows, 1, Len(rows) - 1)),
                             rows[Len(rows)])

\* summary_df.sort_values("Global_Cycle").reset_index(drop=True): a new table
CumulativeSummaryOf(summary_df) ==
    IF "Global_Cycle" \notin summary_df.cols THEN Err("KeyError", "Global_Cycle")
    ELSE Val(Df(summary_df.cols, SortByGlobalCycle(summary_df.rows)))

\* LinkedCycleAnalyzer.get_cumulative_summary()
GetCumulativeSummary ==
    AccessorCalled("linked", "get_cumulative_summary", <<>>,
                   CumulativeSummaryOf(ResultsGet(results, "summary", Df({}, <<>>))),
                   results)

\* Discharge_Capacity / initial_capacity * 100 if initial_capacity > 0 else 0
NormalizedCapacity(discharge_capacity, initial_capacity) ==
    IF initial_capacity > 0 THEN Frac(discharge_capacity * 100, initial_capacity)
    ELSE [num |-> 0, den |-> 1]

\* capacity_df["Normalized_Capacity"] = ...: the column is set on the table
\* that get_capacity_fade_curve took from self.results
WithNormalizedCapacity(capacity_df) ==
    Df(capacity_df.cols \cup {"Normalized_Capacity"},
       [i \in 1..Len(capacity_df.rows) |->
           MapPut(capacity_df.rows[i], "Normalized_Capacity",
                  NormalizedCapacity(capacity_df.rows[i].Discharge_Capacity,
                                     capacity_df.rows[1].Discharge_Capacity))])

\* capacity_df[["Cycle", "Discharge_Capacity", "Normalized_Capacity"]]
FadeCurveColumns(capacity_df) ==
    Df({"Cycle", "Discharge_Capacity", "Normalized_Capacity"},
       [i \in 1..Len(capacity_df.rows) |->
           [Cycle |-> capacity_df.rows[i].Cycle,
            Discharge_Capacity |-> capacity_df.rows[i].Discharge_Capacity,
            Normalized_Capacity |-> capacity_df.rows[i].Normalized_Capacity]])

\* self.results after get_capacity_fade_curve
FadeCurveResults(res) ==
    IF "capacity_data" \notin DOMAIN res \/ Len(res.capacity_data.rows) = 0 THEN res
    ELSE [res EXCEPT !.capacity_data = WithNormalizedCapacity(res.capacity_data)]

\* ReliabilityCycleAnalyzer.get_capacity_fade_curve()
GetCapacityFadeCurve ==
    AccessorCalled("reliability", "get_capacity_fade_curve", <<>>,
                   IF "capacity_data" \notin DOMAIN results
                      \/ Len(results.capacity_data.rows) = 0
                   THEN Val(Df({}, <<>>))
                   ELSE Val(FadeCurveColumns(WithNormalizedCapacity(results.capacity_data))),
                   FadeCurveResults(results))

\* the values the report shows, in the order the text names them
ReportOf(fade, stats, lifecycle, grade) ==
    IF "current_cycle" \notin DOMAIN lifecycle THEN Err("KeyError", "current_cycle")
    ELSE Val(<<fade.initial_capacity, fade.final_capacity, fade.relative_fade,
               fade.fade_per_cycle, stats.capacity_mean, stats.capacity_std,
               stats.capacity_cv, stats.efficiency_mean, lifecycle.eol_capacity,
               lifecycle.predicted_eol_cycle, lifecycle.current_cycle,
               lifecycle.remaining_cycles, grade>>)

\* get_summary_report on the results res
SummaryReportOf(res) ==
    IF "fade_analysis" \notin DOMAIN res THEN Err("KeyError", "fade_analysis")
    ELSE ReportOf(res.fade_analysis, res.statistical_metrics, res.lifecycle_prediction,
                  ResultsGet(res, "reliability_grade", "Unknown"))

\* ReliabilityCycleAnalyzer.get_summary_report()
GetSummaryReport ==
    AccessorCalled("reliability", "get_summary_report", <<>>, SummaryReportOf(results),
                   results)

\* ------------------------------------------------ runs followed by reading
\* discharge durations: zero, 90 and 100
ReportDischarges == {<<0>>, <<90>>, <<100>>}

\* an analyzer over one container that holds cycles 1..k, k >= 1, all of
\* them analysed
InitReport ==
    /\ ContainerInit(NoDir)
    /\ \E v \in {"individual", "reliability", "linked"},
          ds \in UNION {[1..k -> ReportDischarges] : k \in 1..MaxFadeCycles} :
           AnalyzerNew(v, FadeConfig(v, Len(ds)),
                       IF v = "linked" THEN FadeManifest ELSE <<>>,
                       <<[n \in 1..Len(ds) |-> CapacityTable(100, ds[n])]>>,
                       IF v = "linked" THEN FadePaths ELSE <<>>)

ReadProfile ==
    \E cycle_no \in 1..(MaxFadeCycles + 1), profile_type \in {"discharge", "charge", "both"} :
        GetVoltageProfile(cycle_no, profile_type)

ReadPath == \E path \in {"A", "X"} : GetPathSummary(path)

ReadAccessor ==
    \/ GetSummaryTable
    \/ ReadProfile
    \/ ReadPath
    \/ GetCumulativeSummary
    \/ GetCapacityFadeCurve
    \/ GetSummaryReport

NextReport == Construct \/ RunPrepare \/ RunAnalyze \/ RunPostprocess \/ ReadAccessor

SpecReport == InitReport /\ [][NextReport]_vars

\* ------------------------------------- the container under every read call
\* data paths: SaveData files of any set of cycles and no Restore folder,
\* or a raw export with the labels of cycles 1 and MaxCycle or of all cycles
ContainerDirs ==
    {d \in PNEDirs : d.restore = EmptyMap}
    \cup {d \in ToyoDirs : d.rawFile \in {<<RawExport({1, MaxCycle})>>,
                                          <<RawExport(CycleNumbers)>>}}

InitContainer == NoAnalyzer /\ \E d \in ContainerDirs : ContainerInit(d)

NextContainer == Load \/ Clear \/ Get \/ GetMany \/ GetRange

SpecContainer == InitContainer /\ [][NextContainer]_cvars

\* ====================================== calculate_ir on a stored table
\* preprocess_data numbers the rows 0, 1, ... in time order
\* (reset_index(drop=True)) and then drops the rows without voltage or
\* current; the rows that stay keep their labels.  get_cycle copies the
\* table with its labels.
\* the labels of the rows that dropna keeps, sorted being the rows in time order
KeptLabels(sorted) ==
    SelectSeq([i \in 1..Len(sorted) |-> i - 1],
              LAMBDA l : sorted[l + 1].na \cap {"Vol", "Crate"} = {})

\* the row labels (df.index) of preprocess_data(df)
PreprocessIndex(df) ==
    KeptLabels(IF "TimeMin" \in df.cols THEN SortByTime(df.rows) ELSE df.rows)

\* min(pulse_start + 10, len(df) - 1)
PulseEnd(pulse_start, len) ==
    IF pulse_start + 10 < len - 1 THEN pulse_start + 10 ELSE len - 1

\* df.loc[pulse_end, ...] and df.loc[pulse_start, ...]: rows looked up by
\* label; start is the position of the row labelled pulse_start
IrOfLabels(rows, index, start, pulse_end) ==
    IF pulse_end \notin SeqToSet(index) THEN Err("KeyError", "pulse_end")
    ELSE Val(IrOfPulse(rows, start, CHOOSE i \in 1..Len(index) : index[i] = pulse_end))

\* calculate_ir from the pulse points on: pulse_start = pulse_points.index[0]
IrOfLabelledPulse(rows, index, pulse) ==
    IF Cardinality(pulse) < 2 THEN Val([num |-> 0, den |-> 1])
    ELSE IrOfLabels(rows, index, SetMin(pulse),
                    PulseEnd(index[SetMin(pulse)], Len(rows)))

\* BaseAnalyzer.calculate_ir(df) for a table with the rows `rows` labelled `index`
CalculateIrLabelled(rows, index) ==
    IF Len(rows) < 2 THEN Val([num |-> 0, den |-> 1])
    ELSE IrOfLabelledPulse(rows, index,
                           PulsePoints(CurrentDiff(rows), Quantile95x20(CurrentDiff(rows))))

\* analyzer.calculate_ir(container.get_cycle(n)); the container has loaded
\* cycle n from SaveData<n>.csv
CalculateIrStored(n) ==
    /\ n \in DOMAIN cycles
    /\ ret' = Call("calculate_ir", <<n>>,
                   CalculateIrLabelled(obj[cycles[n]].rows,
                                       PreprocessIndex(dir.primary[n])).exc,
                   <<>>,
                   CalculateIrLabelled(obj[cycles[n]].rows,
                                       PreprocessIndex(dir.primary[n])).val)
    /\ UNCHANGED <<dir, kind, rawCache, obj, cycles, keyOrder, metadata, held,
                   avars, lvars>>

\* ---------------------------------------------------------- pulse tables
\* SaveData of one cycle: n samples a minute apart, numbered from 0; the
\* current is 2 from sample a up to sample b - 1 and 0 elsewhere, the
\* voltage of sample i is 30 + i; sample g has no voltage reading (g = -1:
\* every sample has one)
PulseTable(n, a, b, g) ==
    Df(CsvColumns,
       [i \in 1..n |-> Row(i - 1, 29 + i, IF a <= i - 1 /\ i - 1 < b THEN 2 ELSE 0,
                           IF i - 1 = g THEN {"Vol"} ELSE {})])

\* tables long enough for two current steps above the 0.95 quantile: a
\* pulse that ends within ten samples or lasts longer, early or late in
\* the cycle, complete or with one sample dropped
PulseTables ==
    {PulseTable(n, a, b, g) :
        n \in {MinPulseRows, MinPulseRows + 1}, a \in {2, 3, 12, 14, 16},
        b \in {4, 13, 17, 18, 21}, g \in {0 - 1, 0, 8, 12, 13, 21, 22, 23}}

InitIr ==
    /\ NoAnalyzer
    /\ \E t \in PulseTables :
           ContainerInit([path |-> "pne", pattern |-> TRUE, primary |-> <<t>>,
                          restore |-> EmptyMap, rawFile |-> <<>>])

StoredIr == \E n \in CycleNumbers : CalculateIrStored(n)

NextIr == LoadFolder \/ StoredIr

SpecIr == InitIr /\ [][NextIr]_vars

\* ------------------------------------------------ degenerate cycle tables
\* stored cycle tables: a single charge sample; a discharge without a
\* charge; a charge with a discharge of 90 minutes or of no duration; a
\* current pulse that ends within ten samples, one that lasts longer, and
\* a current that steps up once and stays
SentinelTables ==
    {CapacityTable(0, <<>>), CapacityTable(0, <<90>>), CapacityTable(100, <<90>>),
     CapacityTable(100, <<0>>), PulseTable(MinPulseRows, 2, 4, 0 - 1),
     PulseTable(MinPulseRows, 2, 17, 0 - 1),
     PulseTable(MinPulseRows, 2, MinPulseRows, 0 - 1)}

\* an individual or a reliability analyzer over a container that holds
\* cycles 1 and 2, both analysed
InitSentinel ==
    /\ ContainerInit(NoDir)
    /\ \E v \in {"individual", "reliability"}, ts \in [1..2 -> SentinelTables] :
           AnalyzerNew(v, FadeConfig(v, 2), <<>>, <<ts>>, <<>>)

NextSentinel == Construct \/ RunPrepare \/ RunAnalyze \/ RunPostprocess

SpecSentinel == InitSentinel /\ [][NextSentinel]_vars

\* ================================================================ claims

\* C1: get_cycle(n) returns a table equal to the one stored for n when n is
\* loaded, and otherwise fails with a KeyError naming exactly n; either way
\* the stored tables, their keys and the metadata are what they were.
C1_GetCycle ==
    [][ret'.op = "get_cycle" =>
         LET n == ret'.args[1]
         IN  /\ IF n \in DOMAIN cycles
                THEN ret'.exc = "none" /\ ret'.val = <<Stored[n]>>
                ELSE ret'.exc = "KeyError" /\ ret'.names = <<n>> /\ ret'.val = <<>>
             /\ Stored' = Stored
             /\ keyOrder' = keyOrder
             /\ metadata' = metadata]_cvars

\* C1 witness: a loaded container was asked for a cycle it does not hold
C1_Witness ==
    /\ ret.op = "get_cycle"
    /\ ret.exc = "KeyError"
    /\ DOMAIN cycles # {}
    /\ DOMAIN metadata # {}

\* C2: get_cycles(list) fails with a KeyError naming every listed cycle
\* number that is not loaded, in list order, and hands out nothing; when all
\* are loaded it returns a mapping keyed by exactly the listed numbers, each
\* with the stored table.
C2_GetCycles ==
    [][ret'.op = "get_cycles" =>
         LET list == ret'.args
             missing == SelectSeq(list, LAMBDA n : n \notin DOMAIN cycles)
         IN  IF missing # <<>>
             THEN ret'.exc = "KeyError" /\ ret'.names = missing
                  /\ ret'.val = <<>> /\ held' = {}
             ELSE ret'.exc = "none"
                  /\ DOMAIN ret'.val = SeqToSet(list)
                  /\ \A n \in SeqToSet(list) : ret'.val[n] = Stored[n]]_cvars

\* C2 witness: a loaded container was asked for two different cycles it
\* does not hold, and the error names both
C2_Witness ==
    /\ ret.op = "get_cycles"
    /\ ret.exc = "KeyError"
    /\ Len(ret.names) = 2
    /\ ret.names[1] # ret.names[2]
    /\ DOMAIN cycles # {}

\* the loader reports that cycle n does not exist: Variant A finds the file
\* neither in the folder nor under Restore/, Variant B finds no raw export
\* or no row whose label matches
CycleAbsent(n) ==
    IF kind = "PNE"
    THEN n \notin DOMAIN dir.primary /\ n \notin DOMAIN dir.restore
    ELSE \/ dir.rawFile = <<>>
         \/ \A i \in 1..Len(dir.rawFile[1]) : ~LabelMatches(dir.rawFile[1][i].Condition, n)

\* the range a load_all_cycles call works on
RangeOfCall(args) == IF args = <<>> THEN GetAllCycles(dir) ELSE Ok(args)

\* C3: load_all_cycles over [start, end] is gap tolerant for both loader
\* variants: the pass ends without an error, records its metadata, and of
\* the cycle numbers of the range it stores exactly those that exist.
C3_GapTolerant ==
    (ret.op = "load_all_cycles" /\ RangeOfCall(ret.args).exc = "none") =>
        LET rng == RangeOfCall(ret.args).val
        IN  /\ ret.exc = "none"
            /\ DOMAIN metadata # {}
            /\ metadata.cycle_range = rng
            /\ \A n \in rng[1]..rng[2] : (n \in DOMAIN cycles) <=> ~CycleAbsent(n)

\* C3 for Variant A alone holds: this is where the claim is right
C3_GapTolerantPNE == kind = "PNE" => C3_GapTolerant

\* C4: reads and whatever the caller does to the tables it was handed leave
\* the tables stored in the container, and their keys, as loading left them.
C4_ReadsKeepStored ==
    [][ret'.op \in {"get_cycle", "get_cycle_range", "get_cycles", "caller_mutate"} =>
         /\ Stored' = Stored
         /\ keyOrder' = keyOrder
         /\ metadata' = metadata]_cvars

\* C4 witness: the caller has changed a table it got from a container that
\* still stores the table with its rows
C4_Witness ==
    /\ ret.op = "caller_mutate"
    /\ \E id \in held : \E n \in DOMAIN cycles :
          /\ Len(Stored[n].rows) > 0
          /\ obj[id].cols = Stored[n].cols
          /\ obj[id].rows # Stored[n].rows

\* the loaded cycle numbers of [a, b]
LoadedIn(a, b) == {n \in DOMAIN cycles : a <= n /\ n <= b}

\* rows without their elapsed time, which get_cycle_range shifts
NoTime(rows) == [i \in 1..Len(rows) |-> [rows[i] EXCEPT !.TimeMin = 0]]

RECURSIVE StoredRowsOf(_)
StoredRowsOf(ns) ==
    IF ns = <<>> THEN <<>> ELSE Stored[Head(ns)].rows \o StoredRowsOf(Tail(ns))

\* C5: get_cycle_range(a, b) fails with a ValueError exactly when no cycle
\* of [a, b] is loaded (a > b included); otherwise its rows are the rows of
\* the loaded cycles of [a, b] in ascending cycle order, so as many as the
\* stored tables have together.
C5_RangeRows ==
    ret.op = "get_cycle_range" =>
        LET a == ret.args[1]
            b == ret.args[2]
            expected == StoredRowsOf(SortedSeq(LoadedIn(a, b)))
        IN  IF LoadedIn(a, b) = {}
            THEN ret.exc = "ValueError" /\ ret.val = <<>>
            ELSE /\ ret.exc = "none"
                 /\ Len(ret.val[1].rows) = Len(expected)
                 /\ NoTime(ret.val[1].rows) = NoTime(expected)

\* C5 witness: a window over several loaded cycles that gave three rows or more
C5_Witness ==
    /\ ret.op = "get_cycle_range"
    /\ ret.exc = "none"
    /\ Cardinality(LoadedIn(ret.args[1], ret.args[2])) >= 2
    /\ Len(ret.val[1].rows) >= 3

\* every stored table has non-negative elapsed times in ascending order
StoredTimesSorted ==
    \A n \in DOMAIN cycles :
        LET rows == Stored[n].rows
        IN  /\ \A i \in 1..Len(rows) : rows[i].TimeMin >= 0
            /\ \A i \in 1..Len(rows) : \A j \in i..Len(rows) :
                   rows[i].TimeMin <= rows[j].TimeMin

\* C6: over stored tables with non-negative ascending times (tables of one
\* row, tables not starting at 0 and tables without rows included), the
\* elapsed time of get_cycle_range(a, b) never decreases from a row to a
\* later row.
C6_RangeTimeMonotone ==
    (ret.op = "get_cycle_range" /\ ret.exc = "none" /\ StoredTimesSorted) =>
        LET rows == ret.val[1].rows
        IN  \A i \in 1..Len(rows) : \A j \in i..Len(rows) :
                rows[i].TimeMin <= rows[j].TimeMin

\* C6 where every stored table of the window has rows: the shift works
C6_RangeTimeMonotoneNonEmpty ==
    (/\ ret.op = "get_cycle_range"
     /\ \A n \in LoadedIn(ret.args[1], ret.args[2]) : Len(Stored[n].rows) > 0)
        => C6_RangeTimeMonotone

\* the manifest rows the analysis has read
ManifestRows == tsv_data[1].rows

\* the summary rows of results, in the order analyze produced them
SummaryRows == results.summary.rows

\* the loaded cycles of every container are numbered 1, 2, ... without a gap
LocalNumberingFromOne ==
    \A i \in 1..Len(containers) :
        DOMAIN store[containers[i].id] = 1..Cardinality(DOMAIN store[containers[i].id])

\* C7: when the local cycle numbers of every path start again at 1, the
\* Global_Cycle values of the summary rows never decrease in the order the
\* linked analysis produced them (manifest order, then local cycle order),
\* for any number of manifest rows.
C7_GlobalCycleMonotone ==
    (variant = "linked" /\ pc = "analyzed" /\ LocalNumberingFromOne)
        => \A i \in 1..Len(SummaryRows), j \in 1..Len(SummaryRows) :
               i < j => SummaryRows[i].Global_Cycle <= SummaryRows[j].Global_Cycle

\* the same for a manifest of at most two rows
C7_GlobalCycleMonotoneTwoPaths ==
    (variant = "linked" /\ pc = "analyzed" /\ LocalNumberingFromOne
        /\ Len(ManifestRows) <= 2)
        => \A i \in 1..Len(SummaryRows), j \in 1..Len(SummaryRows) :
               i < j => SummaryRows[i].Global_Cycle <= SummaryRows[j].Global_Cycle

\* the manifest rows whose path has a container
KnownRows == SelectSeq(ManifestRows, LAMBDA r : PathIn(containers, r.cyclepath))

\* the locals of analyze after the first k of the given rows
AfterRows(rows, k) == LinkedLoop(LinkedStart, SubSeq(rows, 1, k), config, containers, store)

\* C8: a manifest row whose path has no container changes nothing (no
\* summary row, no path summary, no move of the cycle offset), and what the
\* analysis produces equals what it produces for the manifest without
\* these rows.
C8_UnknownSkipped ==
    (variant = "linked" /\ pc = "analyzed")
        => /\ \A k \in 1..Len(ManifestRows) :
                  ~PathIn(containers, ManifestRows[k].cyclepath)
                      => AfterRows(ManifestRows, k) = AfterRows(ManifestRows, k - 1)
           /\ \A i \in 1..Len(SummaryRows) : PathIn(containers, SummaryRows[i].Path)
           /\ \A p \in DOMAIN results.path_summaries : PathIn(containers, p)
           /\ SummaryRows = AfterRows(KnownRows, Len(KnownRows)).all_summary_data
           /\ results.path_summaries = AfterRows(KnownRows, Len(KnownRows)).path_summaries
           /\ AfterRows(ManifestRows, Len(ManifestRows)).cumulative_cycle_offset
                  = AfterRows(KnownRows, Len(KnownRows)).cumulative_cycle_offset

\* an analysed manifest with an unknown path between two paths that both
\* gave summary rows
C8_Witness ==
    /\ variant = "linked"
    /\ pc = "analyzed"
    /\ \E i \in 1..Len(ManifestRows), k \in 1..Len(ManifestRows), j \in 1..Len(ManifestRows) :
           /\ i < k /\ k < j
           /\ ~PathIn(containers, ManifestRows[k].cyclepath)
           /\ \E a \in 1..Len(SummaryRows), b \in 1..Len(SummaryRows) :
                  /\ SummaryRows[a].Path_Name = ManifestRows[i].cyclename
                  /\ SummaryRows[b].Path_Name = ManifestRows[j].cyclename

\* the phases of run(), in the order of the calls
RunPhases == <<"prepare", "analyze", "postprocess">>

\* the configurations the claim names as invalid
ConfigViolatesInvariant(cfg) ==
    \/ cfg.path.use_tsv /\ cfg.path.tsv_file = <<>>
    \/ cfg.capacity.mode = "manual" /\ cfg.capacity.manual_capacity <= 0
    \/ /\ cfg.cycle # <<>>
       /\ cfg.cycle[1].cycle_range # <<>>
       /\ \/ cfg.cycle[1].cycle_range[1] > cfg.cycle[1].cycle_range[2]
          \/ cfg.cycle[1].cycle_range[1] <= 0
          \/ cfg.cycle[1].cycle_range[2] <= 0

\* C9: a run enters prepare, analyze, postprocess in this order, each once,
\* and returns after the third; a run on a configuration that violates an
\* invariant, or on a bound container without cycles, ends in prepare with
\* an error: analyze is not entered and results is left as it was (empty on
\* the first run).
C9_RunOrder ==
    /\ [](/\ trace = SubSeq(RunPhases, 1, Len(trace))
          /\ pc = "prepared" => trace = <<"prepare">>
          /\ pc = "analyzed" => trace = <<"prepare", "analyze">>
          /\ pc = "returned" => trace = RunPhases
          /\ pc = "raised" => err.where = trace[Len(trace)])
    /\ [][/\ (pc \in {"constructed", "returned", "raised"} /\ runs' = runs + 1)
                 => trace' = <<"prepare">>
          /\ (/\ runs' = runs + 1
              /\ ConfigViolatesInvariant(config) \/ DOMAIN store[container] = {})
                 => /\ pc' = "raised"
                    /\ err'.where = "prepare"
                    /\ trace' = <<"prepare">>
                    /\ results' = results
                    /\ runs = 0 => DOMAIN results' = {}
          /\ (pc = "raised" /\ runs' = runs) => trace' = trace]_vars

\* a first run on a valid configuration that ended in prepare because the
\* bound container has no cycles
C9_Witness ==
    /\ pc = "raised"
    /\ runs = 1
    /\ err.where = "prepare"
    /\ trace = <<"prepare">>
    /\ DOMAIN results = {}
    /\ DOMAIN store[container] = {}
    /\ ~ConfigViolatesInvariant(config)

\* analyze ran on inputs from which it makes no per-cycle row: no
\* requested cycle is loaded, or no manifest path has a container
AnalyzedWithoutRows ==
    /\ pc \in {"raised", "returned"}
    /\ Len(trace) >= 2
    /\ IF variant = "linked"
       THEN \A i \in 1..Len(ManifestRows) :
                ~PathIn(containers, ManifestRows[i].cyclepath)
       ELSE /\ DOMAIN store[container] # {}
            /\ config.cycle # <<>>
            /\ config.cycle[1].cycle_numbers # <<>>
            /\ SeqToSet(config.cycle[1].cycle_numbers) \cap DOMAIN store[container] = {}

\* C10: a run whose analyze makes no per-cycle row ends with the
\* ValueError "Analysis produced no results" raised in postprocess, for
\* each analyzer class.
C10_EmptyResultError ==
    AnalyzedWithoutRows
        => /\ pc = "raised"
           /\ err = Raised(Fail("ValueError", "Analysis produced no results"), "postprocess")

\* the reliability analysis has produced its results
ReliabilityAnalysed == variant = "reliability" /\ pc \in {"analyzed", "returned"}

\* the rows of capacity_data, one per analysed cycle
CapacityRows == results.capacity_data.rows

\* the value the claim gives for the relative fade
ExpectedRelativeFade(initial, final) ==
    IF initial > 0 THEN Frac((initial - final) * 100, initial) ELSE Frac(0, 1)

\* C11: for two or more analysed cycles the fade analysis takes the initial
\* and final capacity from the first and last analysed cycle, the relative
\* fade is (initial - final) / initial * 100 (0 when the initial capacity is
\* not positive) and the fade per cycle is the relative fade over the number
\* of analysed cycles; capacities 100 then 90 give 10 and 5.
C11_FadeAnalysis ==
    (ReliabilityAnalysed /\ Len(CapacityRows) >= 2)
        => /\ results.fade_analysis.initial_capacity = CapacityRows[1].Discharge_Capacity
           /\ results.fade_analysis.final_capacity
                  = CapacityRows[Len(CapacityRows)].Discharge_Capacity
           /\ results.fade_analysis.relative_fade
                  = ExpectedRelativeFade(CapacityRows[1].Discharge_Capacity,
                                         CapacityRows[Len(CapacityRows)].Discharge_Capacity)
           /\ results.fade_analysis.fade_per_cycle
                  = FracDiv(results.fade_analysis.relative_fade, Frac(Len(CapacityRows), 1))
           /\ (/\ Len(CapacityRows) = 2
               /\ CapacityRows[1].Discharge_Capacity = 100
               /\ CapacityRows[2].Discharge_Capacity = 90)
                  => /\ results.fade_analysis.relative_fade = [num |-> 10, den |-> 1]
                     /\ results.fade_analysis.fade_per_cycle = [num |-> 5, den |-> 1]

\* two analysed cycles of 100 then 90 mAh
C11_Witness ==
    /\ ReliabilityAnalysed
    /\ Len(CapacityRows) = 2
    /\ CapacityRows[1].Discharge_Capacity = 100
    /\ CapacityRows[2].Discharge_Capacity = 90
    /\ results.fade_analysis.relative_fade = [num |-> 10, den |-> 1]

\* the cycle number of the last analysed cycle
LastAnalysedCycle == CapacityRows[Len(CapacityRows)].Cycle

\* the prediction is the all-zero one
ZeroPrediction ==
    /\ results.lifecycle_prediction.eol_capacity = 0
    /\ results.lifecycle_prediction.predicted_eol_cycle = 0
    /\ results.lifecycle_prediction.remaining_cycles = 0

\* the prediction for a falling series: 80% of the initial capacity, a cycle
\* number that is not negative, and what is left of it after the last cycle
FallingPrediction ==
    /\ results.lifecycle_prediction.eol_capacity
           = Frac(results.fade_analysis.initial_capacity * 80, 100)
    /\ results.lifecycle_prediction.predicted_eol_cycle >= 0
    /\ results.lifecycle_prediction.remaining_cycles >= 0
    /\ results.lifecycle_prediction.remaining_cycles
           = SetMax({0, results.lifecycle_prediction.predicted_eol_cycle - LastAnalysedCycle})

\* C12: the lifecycle prediction is all zero (eol_capacity, predicted_eol_cycle
\* and remaining_cycles) exactly when the initial capacity is not positive or
\* the fitted slope is not negative, which includes every flat series;
\* otherwise eol_capacity is 80% of the initial capacity, predicted_eol_cycle
\* is not negative and remaining_cycles is max(0, predicted_eol_cycle - last
\* analysed cycle), never negative.
C12_LifecyclePrediction ==
    ReliabilityAnalysed
        => /\ IF \/ results.fade_analysis.initial_capacity <= 0
                 \/ results.fade_analysis.linear_slope.num >= 0
              THEN ZeroPrediction
              ELSE FallingPrediction
           /\ (\A i \in 1..Len(CapacityRows) :
                   CapacityRows[i].Discharge_Capacity = CapacityRows[1].Discharge_Capacity)
                  => results.fade_analysis.linear_slope.num = 0
           /\ Len(CapacityRows) = 2
                  => (results.fade_analysis.linear_slope.num >= 0
                        <=> CapacityRows[2].Discharge_Capacity
                               >= CapacityRows[1].Discharge_Capacity)

\* 100 then 98 mAh: end of life at 80 mAh in cycle 10, 8 cycles after cycle 2
C12_Witness ==
    /\ ReliabilityAnalysed
    /\ results.fade_analysis.initial_capacity = 100
    /\ results.fade_analysis.linear_slope.num < 0
    /\ results.lifecycle_prediction.eol_capacity = [num |-> 80, den |-> 1]
    /\ results.lifecycle_prediction.predicted_eol_cycle = 10
    /\ results.lifecycle_prediction.remaining_cycles = 8

\* a flat series of positive capacity, predicted all zero
C12_WitnessFlat ==
    /\ ReliabilityAnalysed
    /\ results.fade_analysis.initial_capacity = 100
    /\ results.fade_analysis.final_capacity = 100
    /\ results.fade_analysis.linear_slope.num = 0
    /\ ZeroPrediction

\* a reliability run that has returned from postprocess
ReliabilityGraded ==
    variant = "reliability" /\ pc = "returned" /\ err = NoRaise

\* this run's relative fade is below the limit
FadeBelow(limit) ==
    results.fade_analysis.relative_fade.num
        < limit * results.fade_analysis.relative_fade.den

\* this run's coefficient of variation is below the limit (both squared)
CvBelow(limit) ==
    results.statistical_metrics.capacity_cv.sqrt_of.num
        < limit * limit * results.statistical_metrics.capacity_cv.sqrt_of.den

\* the grades from best to worst
GradeRank(g) ==
    CASE g = "Excellent" -> 0 [] g = "Good" -> 1 [] g = "Fair" -> 2 [] g = "Poor" -> 3

\* fades and coefficients of variation on and next to the limits
GradeLimits == {4, 5, 9, 10, 19, 20}

\* C13: a completed reliability run carries exactly one grade: Excellent iff
\* fade < 5 and CV < 2; otherwise Good iff fade < 10 and CV < 5; otherwise
\* Fair iff fade < 20 and CV < 10; otherwise Poor.  Raising the fade or the CV
\* never gives a better grade, for the run's own values against the values on
\* and next to the limits, and among those values.
C13_Grade ==
    ReliabilityGraded
        => /\ results.reliability_grade \in {"Excellent", "Good", "Fair", "Poor"}
           /\ results.reliability_grade = "Excellent" <=> (FadeBelow(5) /\ CvBelow(2))
           /\ results.reliability_grade = "Good"
                  <=> (~(FadeBelow(5) /\ CvBelow(2)) /\ FadeBelow(10) /\ CvBelow(5))
           /\ results.reliability_grade = "Fair"
                  <=> (~(FadeBelow(10) /\ CvBelow(5)) /\ FadeBelow(20) /\ CvBelow(10))
           /\ results.reliability_grade = "Poor" <=> ~(FadeBelow(20) /\ CvBelow(10))
           /\ \A f \in GradeLimits, c \in GradeLimits :
                  /\ (~FadeBelow(f) /\ ~CvBelow(c))
                         => GradeRank(Grade(Frac(f, 1), SqrtOf(Frac(c * c, 1))))
                               <= GradeRank(results.reliability_grade)
                  /\ (FadeBelow(f) /\ CvBelow(c))
                         => GradeRank(Grade(Frac(f, 1), SqrtOf(Frac(c * c, 1))))
                               >= GradeRank(results.reliability_grade)
                  /\ \A f2 \in GradeLimits, c2 \in GradeLimits :
                         (f <= f2 /\ c <= c2)
                            => GradeRank(Grade(Frac(f, 1), SqrtOf(Frac(c * c, 1))))
                                  <= GradeRank(Grade(Frac(f2, 1), SqrtOf(Frac(c2 * c2, 1))))

\* 100, 98, 90 mAh: the fade is exactly 10 with a CV below 5, graded Fair
C13_Witness ==
    /\ ReliabilityGraded
    /\ results.fade_analysis.relative_fade = [num |-> 10, den |-> 1]
    /\ CvBelow(5)
    /\ results.reliability_grade = "Fair"

\* each of the four grades is given
C13_WitnessExcellent == ReliabilityGraded /\ results.reliability_grade = "Excellent"

C13_WitnessGood == ReliabilityGraded /\ results.reliability_grade = "Good"

C13_WitnessPoor == ReliabilityGraded /\ results.reliability_grade = "Poor"

\* analyze has produced the per-cycle rows of the run, and the container
\* still holds the tables (it has not been cleared since)
CapacityAnalysed == pc \in {"analyzed", "returned"} /\ store[container] # EmptyMap

\* the per-cycle rows of the run: capacity_data or summary
CycleRows ==
    IF variant = "reliability" THEN results.capacity_data.rows ELSE results.summary.rows

\* the stored table a per-cycle row was derived from
TableOfRow(r) == store[container][IF variant = "linked" THEN r.Local_Cycle ELSE r.Cycle]

\* elapsed time does not decrease along the rows
TimeNonDecreasing(rows) ==
    \A i \in 2..Len(rows) : rows[i - 1].TimeMin <= rows[i].TimeMin

\* discharge capacity, charge capacity and efficiency of a per-cycle row
CapacityTriple(r) == <<r.Discharge_Capacity, r.Charge_Capacity, r.Efficiency>>

\* the triples of a sequence of per-cycle rows
TriplesOf(rows) == [i \in 1..Len(rows) |-> CapacityTriple(rows[i])]

\* the triples each variant derives from the container of this run
IndividualTriples ==
    TriplesOf(IndividualAnalyze(FadeConfig("individual", Len(CycleRows)),
                                store[container]).results.summary.rows)

ReliabilityTriples ==
    TriplesOf(ReliabilityAnalyze(FadeConfig("reliability", Len(CycleRows)),
                                 store[container], EmptyMap).results.capacity_data.rows)

LinkedTriples ==
    TriplesOf(LinkedAnalyze(FadeConfig("linked", Len(CycleRows)), FadePaths,
                            store, FadeManifest).results.summary.rows)

\* C14: for a stored table with non-decreasing time and a positive capacity
\* basis the derived discharge and charge capacity are >= 0 and the efficiency
\* is 0 when the charge capacity is 0 and discharge / charge * 100 otherwise;
\* the individual, the linked and the reliability derivation give the same
\* three values for every cycle of the same container.
C14_CapacityDerivation ==
    (CapacityAnalysed /\ CapacityBase(config) > 0)
        => /\ \A i \in 1..Len(CycleRows) :
                  TimeNonDecreasing(TableOfRow(CycleRows[i]).rows)
                     => /\ CycleRows[i].Discharge_Capacity >= 0
                        /\ CycleRows[i].Charge_Capacity >= 0
                        /\ CycleRows[i].Efficiency
                               = IF CycleRows[i].Charge_Capacity = 0 THEN Frac(0, 1)
                                 ELSE Frac(CycleRows[i].Discharge_Capacity * 100,
                                           CycleRows[i].Charge_Capacity)
           /\ IndividualTriples = TriplesOf(CycleRows)
           /\ LinkedTriples = TriplesOf(CycleRows)
           /\ ReliabilityTriples = TriplesOf(CycleRows)

\* a linked run over a cycle charged 100 and discharged 90 minutes at 1 mAh
\* per minute: 90 mAh, 100 mAh, 90 %
C14_Witness ==
    /\ CapacityAnalysed
    /\ variant = "linked"
    /\ \E i \in 1..Len(CycleRows) :
           CapacityTriple(CycleRows[i]) = <<90, 100, [num |-> 90, den |-> 1]>>

\* a cycle without charge: efficiency 0
C14_WitnessNoCharge ==
    /\ CapacityAnalysed
    /\ \E i \in 1..Len(CycleRows) :
           CapacityTriple(CycleRows[i]) = <<90, 0, [num |-> 0, den |-> 1]>>

\* analyze of the individual or the linked analyzer has extracted the
\* voltage profiles, and the container still holds the tables
ProfilesExtracted == CapacityAnalysed /\ variant \in {"individual", "linked"}

\* the voltage profiles of the run's container, by cycle number
ProfilesOfRun ==
    IF variant = "linked" THEN results.voltage_profiles["A"] ELSE results.voltage_profiles

\* the charge (sign 1) or discharge (sign -1) rows of a stored table
Subset(df, sign) == SelectSeq(df.rows, LAMBDA r : r.Crate * sign > 0)

\* the normalized capacity curve of a profile leg
Curve(leg) == [i \in 1..Len(leg) |-> leg[i].Capacity_Normalized]

\* the cumulative |current| x delta-time integral over a subset
Integral(rows) ==
    SumSeq([i \in 1..(Len(rows) - 1) |->
               Abs(rows[i + 1].Crate) * (rows[i + 1].TimeMin - rows[i].TimeMin)])

\* a <= b for fractions with positive denominators
NotAbove(a, b) == a.num * b.den <= b.num * a.den

\* what the claim says of the curve of a subset
CurveAsClaimed(curve, rows) ==
    /\ Len(curve) = Len(rows)
    /\ rows = <<>> => curve = <<>>
    /\ rows # <<>> => curve[1].num >= 0
    /\ \A i \in 2..Len(curve) : NotAbove(curve[i - 1], curve[i])
    /\ (rows # <<>> /\ Integral(rows) > 0) => curve[Len(curve)] = [num |-> 100, den |-> 1]
    /\ Integral(rows) = 0 => \A i \in 1..Len(curve) : curve[i] = [num |-> 0, den |-> 1]

\* C15: the normalized capacity curve of the charge and of the discharge
\* subset of a stored table has one value per row of the subset, starts at a
\* value >= 0, never decreases, ends at 100 when the subset is not empty and
\* its |current| x delta-time integral is > 0, is empty for an empty subset and
\* all zero for a zero integral.
C15_NormalizedCurve ==
    ProfilesExtracted
        => \A n \in DOMAIN ProfilesOfRun :
              /\ CurveAsClaimed(Curve(ProfilesOfRun[n].discharge),
                                Subset(store[container][n], 0 - 1))
              /\ CurveAsClaimed(Curve(ProfilesOfRun[n].charge),
                                Subset(store[container][n], 1))

\* a discharge of 75 minutes sampled at 0, 37 and 75 minutes: 0, 49 1/3, 100
C15_Witness ==
    /\ ProfilesExtracted
    /\ \E n \in DOMAIN ProfilesOfRun :
           Curve(ProfilesOfRun[n].discharge)
              = <<[num |-> 0, den |-> 1], [num |-> 148, den |-> 3], [num |-> 100, den |-> 1]>>

\* a cycle without discharge rows: the empty curve
C15_WitnessEmpty ==
    /\ ProfilesExtracted
    /\ \E n \in DOMAIN ProfilesOfRun :
           Subset(store[container][n], 0 - 1) = <<>> /\ ProfilesOfRun[n].discharge = <<>>

\* a discharge of no duration: the all-zero curve
C15_WitnessZero ==
    /\ ProfilesExtracted
    /\ \E n \in DOMAIN ProfilesOfRun :
           Curve(ProfilesOfRun[n].discharge)
              = <<[num |-> 0, den |-> 1], [num |-> 0, den |-> 1], [num |-> 0, den |-> 1]>>

\* the loader is the consolidated-export loader, path p has an export, and
\* the loader's cache is empty or holds the export of path p
CacheIsOf(p) ==
    /\ kind = "TOYO"
    /\ disk[p].rawFile # <<>>
    /\ rawCache \in {<<>>, disk[p].rawFile}

\* the raw rows of the export of d whose label names cycle n
LabelledRows(d, n) == SelectSeq(d.rawFile[1], LAMBDA r : r.Condition = n)

\* those rows as load_cycle hands them out: renamed, in minutes, preprocessed
ExactCycle(d, n) == ToyoPreprocessData(ToyoMapColumns(LabelledRows(d, n)))

\* this step is a load_cycle(p, n) call that returns exactly the rows
\* labelled cycle n, or raises ValueError when there are none
LoadCycleExact(p, n) ==
    IF LabelledRows(disk[p], n) = <<>> THEN ret'.exc = "ValueError"
    ELSE ret'.exc = "none" /\ ret'.val = <<ExactCycle(disk[p], n)>>

\* this step is a load_all_cycles call that has stored, under every cycle
\* number of its range, exactly the rows labelled with that number
StoredExact ==
    \A n \in metadata'.cycle_range[1]..metadata'.cycle_range[2] :
        /\ n \in DOMAIN cycles'
        /\ obj'[cycles'[n]] = ExactCycle(dir, n)

\* the export of path p names no cycle number of two digits
SingleDigitLabels(p) ==
    \A i \in 1..Len(disk[p].rawFile[1]) : disk[p].rawFile[1][i].Condition < 10

\* C16: load_cycle(path, n) of the consolidated-export loader returns
\* exactly the raw rows whose Condition label names cycle n, for every n and
\* every set of labels in the export, cycle numbers of two digits included,
\* so that load_all_cycles stores under each cycle number the rows of that
\* cycle only and no raw row under two numbers.
C16_ExactRows ==
    [][/\ (ret'.op = "load_cycle" /\ CacheIsOf(ret'.args[1]))
           => LoadCycleExact(ret'.args[1], ret'.args[2])
       /\ (ret'.op = "load_all_cycles" /\ ret'.exc = "none" /\ CacheIsOf(DirPath))
           => StoredExact]_vars

\* the same for exports whose cycle numbers have one digit: holds
C16_ExactRowsSingleDigit ==
    [][/\ (/\ ret'.op = "load_cycle"
           /\ CacheIsOf(ret'.args[1])
           /\ SingleDigitLabels(ret'.args[1]))
           => LoadCycleExact(ret'.args[1], ret'.args[2])
       /\ (/\ ret'.op = "load_all_cycles"
           /\ ret'.exc = "none"
           /\ CacheIsOf(DirPath)
           /\ SingleDigitLabels(DirPath))
           => StoredExact]_vars

\* since the loader was made, no export was read twice without a
\* clear_cache() in between
ReadAtMostOnce ==
    \A i \in DOMAIN ioLog, j \in DOMAIN ioLog :
        (i < j /\ ioLog[i] # 0 /\ ioLog[i] = ioLog[j])
            => \E k \in (i + 1)..(j - 1) : ioLog[k] = 0

\* this step is a load_cycle(p, n) call whose outcome is taken from the
\* data of path p: it is what a loader that has seen no other path gives
FromOwnPath(p, n) ==
    /\ ret'.exc = LoadCycle(kind, <<>>, disk[p], n).exc
    /\ ret'.exc = "none" => ret'.val = <<LoadCycle(kind, <<>>, disk[p], n).val>>

\* C17: in any sequence of load_cycle calls on one loader over one or more
\* data paths the raw export of a data source is read at most once, and
\* every call returns rows of the raw table of the path it was given.
C17_OwnPathRows ==
    [][/\ ReadAtMostOnce'
       /\ ret'.op = "load_cycle" => FromOwnPath(ret'.args[1], ret'.args[2])]_vars

\* the first half alone, as a property of every state: holds
C17_ReadAtMostOnce == ReadAtMostOnce

\* the second half for calls on the path whose export the cache holds, or
\* on a loader with an empty cache: holds
C17_OwnPathRowsOnePath ==
    [][(/\ ret'.op = "load_cycle"
        /\ rawCache \in {<<>>, disk[ret'.args[1]].rawFile})
           => FromOwnPath(ret'.args[1], ret'.args[2])]_vars

\* the table has the three required columns
HasRequiredColumns(df) == {"TimeMin", "Vol", "Crate"} \subseteq df.cols

\* no row of the table has a null in one of the columns of cells
NoNullIn(df, cells) == \A i \in 1..Len(df.rows) : df.rows[i].na \cap cells = {}

\* the rows whose time is not null are in ascending order of time
TimeAscending(df) ==
    \A i \in 1..Len(df.rows), j \in 1..Len(df.rows) :
        (i < j /\ {"TimeMin"} \cap (df.rows[i].na \cup df.rows[j].na) = {})
            => df.rows[i].TimeMin <= df.rows[j].TimeMin

\* C18: every table load_all_cycles has stored in the container, through
\* either loader, has the columns time, voltage and signed current, no null
\* in any of the three in any row, and its rows in ascending order of time.
C18_StoredWellFormed ==
    \A n \in DOMAIN cycles :
        /\ HasRequiredColumns(obj[cycles[n]])
        /\ NoNullIn(obj[cycles[n]], {"TimeMin", "Vol", "Crate"})
        /\ TimeAscending(obj[cycles[n]])

\* the same without the time column among the columns free of nulls: holds
C18_StoredNoNullVolCrate ==
    \A n \in DOMAIN cycles :
        /\ HasRequiredColumns(obj[cycles[n]])
        /\ NoNullIn(obj[cycles[n]], {"Vol", "Crate"})
        /\ TimeAscending(obj[cycles[n]])

\* a table was stored from a file that has a row without voltage
C18_WitnessDropped ==
    /\ kind = "PNE"
    /\ dir.pattern
    /\ 1 \in DOMAIN cycles
    /\ ~NoNullIn(dir.primary[1], {"Vol"})
    /\ Len(obj[cycles[1]].rows) = 2

\* the span of the SaveData numbers of a folder, as get_all_cycles gives it
SaveDataSpan(d) ==
    IF DOMAIN d.primary = {} THEN Raise("FileNotFoundError")
    ELSE Ok(<<SetMin(DOMAIN d.primary), SetMax(DOMAIN d.primary)>>)

\* the cycle numbers the labels of a raw export name
LabelNumbers(raw) == {raw[i].Condition : i \in 1..Len(raw)} \ {0}

\* the span of the cycle numbers of a raw export, as get_all_cycles gives it
LabelSpan(d) ==
    IF d.rawFile = <<>> THEN Raise("FileNotFoundError")
    ELSE IF LabelNumbers(d.rawFile[1]) = {} THEN Raise("ValueError")
    ELSE Ok(<<SetMin(LabelNumbers(d.rawFile[1])), SetMax(LabelNumbers(d.rawFile[1]))>>)

\* the last call has the outcome r
Returned(r) == ret.exc = r.exc /\ ret.val = r.val

C19_WitnessSpan ==
    /\ ret.op = "get_all_cycles"
    /\ disk[ret.args[1]].pattern
    /\ disk[ret.args[1]].rawFile # <<>>
    /\ ret.val = <<1, 2>>

\* create_loader_by_type with a value that is no cycler type: ValueError
C19_WitnessUnknownType ==
    /\ ret.op = "create_loader_by_type"
    /\ ret.args = <<"other">>
    /\ ret.exc = "ValueError"

\* name_capacity has been called on the data path
NameRead == ret.op = "name_capacity"

\* the positions of the digits of s that "mAh" follows directly
UnitDigits(s) == {j \in 1..Len(s) : s[j] \in Digits /\ IsUnit(s, j + 1)}

\* the first position of the run of digits of s that ends at position j
RunStart(s, j) ==
    SetMin({i \in 1..j : \A k \in i..j : s[k] \in Digits})

\* The number the token that ends at position j denotes: its last run of
\* digits, as decimals behind the run before it when a separator joins the
\* two, as a whole number otherwise.
TokenValue(s, j) ==
    IF /\ RunStart(s, j) >= 3
       /\ s[RunStart(s, j) - 1] \in Separators
       /\ s[RunStart(s, j) - 2] \in Digits
    THEN Frac(NumberOf(SubSeq(s, RunStart(s, RunStart(s, j) - 2), RunStart(s, j) - 2))
                  * PowerOfTen(j - RunStart(s, j) + 1)
              + NumberOf(SubSeq(s, RunStart(s, j), j)),
              PowerOfTen(j - RunStart(s, j) + 1))
    ELSE Frac(NumberOf(SubSeq(s, RunStart(s, j), j)), 1)

\* C20: name_capacity(s) is None exactly when s has no run of digits that
\* "mAh" follows directly; otherwise it is the number of the token in front
\* of the first such "mAh": its digits, with a "." or "-" between two runs of
\* digits read as the decimal point.
C20_NameCapacity ==
    NameRead
        => /\ ret.val = <<>> <=> UnitDigits(dir.path) = {}
           /\ UnitDigits(dir.path) # {}
                  => ret.val = <<TokenValue(dir.path, SetMin(UnitDigits(dir.path)))>>
           /\ dir.path = <<"1", "-", "2", "m", "A", "h">>
                  => ret.val = <<[num |-> 6, den |-> 5]>>
           /\ dir.path = <<"1", "2", "m", "A", "h">> => ret.val = <<[num |-> 12, den |-> 1]>>
           /\ dir.path = <<"1", "2", "m", "A">> => ret.val = <<>>

\* "2.1mAh" gives 2.1
C20_Witness ==
    /\ NameRead
    /\ dir.path = <<"2", ".", "1", "m", "A", "h">>
    /\ ret.val = <<[num |-> 21, den |-> 10]>>

\* a name with digits and the letters of the unit, but no "mAh" behind a digit
C20_WitnessNone ==
    /\ NameRead
    /\ dir.path = <<"2", ".", "m", "A", "h">>
    /\ ret.val = <<>>

\* build() has returned the configuration to its caller
ConfigBuilt == pc # "building"

\* C21: once build() has returned a configuration, no later operation
\* (builder calls on the same builder, analyzer construction, prepare,
\* analyze, postprocess) changes a field of that configuration.
C21_BuiltConfigImmutable == [][ConfigBuilt => config' = config]_vars

\* the part of C21 that holds: build() and the analyzer (constructor,
\* prepare, analyze, postprocess) leave the configuration as it is
C21_AnalyzerKeepsConfig ==
    [][ret'.op \in {"init", "build"} \/ ret' = ret => config' = config]_vars

\* run() has returned the results and no later run has begun
RunReturned == pc = "returned"

\* the read accessors of the three analyzers
ReadAccessors ==
    {"get_summary_table", "get_voltage_profile", "get_path_summary",
     "get_cumulative_summary", "get_capacity_fade_curve", "get_summary_report"}

\* C22: once run() has returned, a call of a read accessor
\* (get_summary_table, get_voltage_profile, get_path_summary,
\* get_cumulative_summary, get_capacity_fade_curve, get_summary_report)
\* leaves the result mapping and every table in it unchanged.
C22_AccessorsKeepResults ==
    [][RunReturned /\ pc' = pc /\ ret'.op \in ReadAccessors => results' = results]_vars

\* the part of C22 that holds: every accessor but get_capacity_fade_curve
\* leaves the results unchanged
C22_OtherAccessorsKeepResults ==
    [][RunReturned /\ pc' = pc /\ ret'.op \in ReadAccessors \ {"get_capacity_fade_curve"}
           => results' = results]_vars

\* get_loaded_cycle_numbers() is strictly ascending, holds n exactly when
\* has_cycle(n), and is as long as len(container)
LoadedNumbersAgree ==
    /\ \A i \in 1..(Len(GetLoadedCycleNumbers(cycles)) - 1) :
           GetLoadedCycleNumbers(cycles)[i] < GetLoadedCycleNumbers(cycles)[i + 1]
    /\ \A n \in AskedCycles :
           n \in SeqToSet(GetLoadedCycleNumbers(cycles)) <=> HasCycle(cycles, n)
    /\ Len(GetLoadedCycleNumbers(cycles)) = ContainerLen(cycles)

\* directly after clear() nothing is loaded and get_metadata() is empty
ClearedIsEmpty ==
    ret.op = "clear" => GetLoadedCycleNumbers(cycles) = <<>> /\ metadata = EmptyMap

\* get_cycle(n) succeeds exactly when n is among the loaded cycle numbers
GetCycleAgrees ==
    ret'.op = "get_cycle"
        => (ret'.exc = "none" <=> ret'.args[1] \in SeqToSet(GetLoadedCycleNumbers(cycles')))

\* C23 as stated: after any sequence of load_all_cycles and clear calls
\* get_loaded_cycle_numbers is sorted ascending without duplicates, holds n
\* exactly when has_cycle(n) and exactly when get_cycle(n) succeeds, and is
\* as long as len(container); directly after clear it is empty, get_metadata
\* is empty, and every get_cycle / get_cycles / get_cycle_range call fails.
C23_EveryGetFailsAfterClear ==
    /\ [](LoadedNumbersAgree /\ ClearedIsEmpty)
    /\ [][/\ GetCycleAgrees
          /\ ret.op = "clear"
                 /\ ret'.op \in {"get_cycle", "get_cycles", "get_cycle_range"}
                 => ret'.exc # "none"]_vars

\* C23 amended: ... directly after clear it is empty, get_metadata is empty,
\* and every get_cycle and get_cycle_range call and every get_cycles call
\* that names at least one cycle fails; get_cycles([]) returns {}.
C23_GetFailsAfterClear ==
    /\ [](LoadedNumbersAgree /\ ClearedIsEmpty)
    /\ [][/\ GetCycleAgrees
          /\ ret.op = "clear"
                 /\ ret'.op \in {"get_cycle", "get_cycles", "get_cycle_range"}
                 => IF ret'.op = "get_cycles" /\ ret'.args = <<>>
                    THEN ret'.exc = "none" /\ ret'.val = EmptyMap
                    ELSE ret'.exc # "none"]_vars

\* the export with every cycle has been loaded from, the container has been
\* cleared, and a get call on it has failed
C23_Witness ==
    /\ ret.op \in {"get_cycle", "get_cycles", "get_cycle_range"}
    /\ ret.exc # "none"
    /\ cycles = EmptyMap
    /\ metadata = EmptyMap
    /\ rawCache # <<>>
    /\ dir.rawFile = <<RawExport(CycleNumbers)>>

\* the locals of analyze after its loop has passed the first i manifest rows
LinkedAfter(i) ==
    LinkedLoop(LinkedStart, SubSeq(tsv_data[1].rows, 1, i), config, containers, store)

\* the cycle numbers loaded for manifest row i; none for an unknown path
LoadedFor(i) ==
    IF PathIn(containers, tsv_data[1].rows[i].cyclepath)
    THEN DOMAIN store[ContainerOf(containers, tsv_data[1].rows[i].cyclepath)]
    ELSE {}

\* the summary rows that manifest row i added
RowsOf(i) ==
    SubSeq(LinkedAfter(i).all_summary_data,
           Len(LinkedAfter(i - 1).all_summary_data) + 1,
           Len(LinkedAfter(i).all_summary_data))

\* analyze() of the linked analyzer has just ended
LinkedAnalyzed == variant = "linked" /\ pc = "analyzed"

\* C24: in LinkedCycleAnalyzer.analyze the running cycle offset starts at 0,
\* never decreases from one manifest row to the next, changes only after
\* all rows of the current path have been numbered (every summary row of a
\* path carries the offset from before that path), after a path equals
\* max(previous offset, that path's largest loaded local cycle number), and
\* is unchanged by a path with no loaded cycles.
C24_OffsetAdvances ==
    LinkedAnalyzed =>
        /\ LinkedAfter(0).cumulative_cycle_offset = 0
        /\ results.summary.rows = LinkedAfter(Len(tsv_data[1].rows)).all_summary_data
        /\ \A i \in 1..Len(tsv_data[1].rows) :
              /\ LinkedAfter(i).cumulative_cycle_offset
                     >= LinkedAfter(i - 1).cumulative_cycle_offset
              /\ \A k \in 1..Len(RowsOf(i)) :
                     RowsOf(i)[k].Global_Cycle
                         = LinkedAfter(i - 1).cumulative_cycle_offset + RowsOf(i)[k].Local_Cycle
              /\ {RowsOf(i)[k].Local_Cycle : k \in 1..Len(RowsOf(i))} = LoadedFor(i)
              /\ LinkedAfter(i).cumulative_cycle_offset
                     = IF LoadedFor(i) = {} THEN LinkedAfter(i - 1).cumulative_cycle_offset
                       ELSE SetMax({LinkedAfter(i - 1).cumulative_cycle_offset,
                                    SetMax(LoadedFor(i))})

\* three paths: the first moves the offset to MaxLocal, the second has no
\* loaded cycle, the third has a smaller largest cycle number and its row
\* is numbered from the unchanged offset
C24_Witness ==
    /\ LinkedAnalyzed
    /\ Len(tsv_data[1].rows) = 3
    /\ LoadedFor(1) = 1..MaxLocal
    /\ LoadedFor(2) = {}
    /\ PathIn(containers, tsv_data[1].rows[2].cyclepath)
    /\ LoadedFor(3) = {1}
    /\ LinkedAfter(3).cumulative_cycle_offset = MaxLocal
    /\ results.summary.rows[Len(results.summary.rows)].Global_Cycle = MaxLocal + 1

\* the sum of cycle_count over the paths P of path_statistics
RECURSIVE CycleCountSum(_, _)
CycleCountSum(path_statistics, P) ==
    IF P = {} THEN 0
    ELSE path_statistics[CHOOSE p \in P : TRUE].cycle_count
         + CycleCountSum(path_statistics, P \ {CHOOSE p \in P : TRUE})

\* run() of the linked analyzer has returned its results
LinkedReturned == variant = "linked" /\ pc = "returned"

\* statistics.total_cycles is the sum of the per-path cycle counts, and
\* every summary row is a row of the path summary of its path
TotalsMatchPaths ==
    /\ results.statistics.total_cycles
           = CycleCountSum(results.path_statistics, DOMAIN results.path_statistics)
    /\ \A i \in 1..Len(results.summary.rows) :
           /\ results.summary.rows[i].Path \in DOMAIN results.path_summaries
           /\ results.summary.rows[i]
                  \in SeqToSet(results.path_summaries[results.summary.rows[i].Path].rows)

\* C25: linked postprocess totals are consistent with the per-path
\* subtotals for every manifest, including one that lists the same path in
\* more than one row: statistics.total_cycles equals the sum of
\* path_statistics[p].cycle_count over all paths p, and every summary row
\* belongs to the path summary of its path.
C25_TotalsMatchPaths == LinkedReturned => TotalsMatchPaths

\* no path with a container is named by two rows of the manifest
PathsDistinct ==
    \A i, j \in 1..Len(tsv_data[1].rows) :
        /\ tsv_data[1].rows[i].cyclepath = tsv_data[1].rows[j].cyclepath
        /\ PathIn(containers, tsv_data[1].rows[i].cyclepath)
        => i = j

\* the part of C25 that holds: the totals match for every manifest that
\* names each known path at most once
C25_TotalsMatchDistinctPaths == LinkedReturned /\ PathsDistinct => TotalsMatchPaths

\* calculate_ir has been called on the stored table of a cycle
IrCalled == ret.op = "calculate_ir"

\* the resistance between the first row whose current change exceeds the
\* threshold and the row 10 positions later, or the last row
IrByPosition == CalculateIr(obj[cycles[ret.args[1]]])

\* preprocessing has dropped no row of the stored table
NoRowDropped ==
    Len(obj[cycles[ret.args[1]]].rows) = Len(dir.primary[ret.args[1]].rows)

\* C27: calculate_ir never fails on a table stored in a container,
\* including tables from which preprocessing dropped rows with null voltage
\* or current after the row index was reset; it returns a value >= 0
\* computed between the first row whose current change exceeds the
\* threshold and the row 10 positions later, or the last row if fewer than
\* 10 rows follow.
C27_IrNeverFails ==
    IrCalled => /\ ret.exc = "none"
                /\ ret.val.num >= 0
                /\ ret.val = IrByPosition

\* the part of C27 that holds: on a stored table that lost no row
\* calculate_ir does not fail and returns that value
C27_IrOfCompleteTable ==
    IrCalled /\ NoRowDropped => /\ ret.exc = "none"
                                /\ ret.val.num >= 0
                                /\ ret.val = IrByPosition

\* the pulse candidates of calculate_ir in the stored table of cycle n
PulseCandidates(n) ==
    IF Len(store[container][n].rows) < 2 THEN {}
    ELSE PulsePoints(CurrentDiff(store[container][n].rows),
                     Quantile95x20(CurrentDiff(store[container][n].rows)))

\* the current delta over the first pulse of cycle n
CurrentDelta(n) ==
    store[container][n].rows[IF SetMin(PulseCandidates(n)) + 10 < Len(store[container][n].rows)
                             THEN SetMin(PulseCandidates(n)) + 10
                             ELSE Len(store[container][n].rows)].Crate
    - store[container][n].rows[SetMin(PulseCandidates(n))].Crate

\* DCIR of cycle n is degenerate: fewer than 2 pulse candidates, or a
\* current delta below 0.01
DcirDegenerate(n) ==
    Cardinality(PulseCandidates(n)) < 2 \/ CurrentDelta(n) = 0

\* the sentinel 0 in the rows analyze makes
RowSentinels ==
    \A i \in 1..Len(CycleRows) :
        /\ CycleRows[i].Charge_Capacity = 0 => CycleRows[i].Efficiency = [num |-> 0, den |-> 1]
        /\ variant = "individual" /\ DcirDegenerate(CycleRows[i].Cycle)
               => CycleRows[i].DCIR = [num |-> 0, den |-> 1]

\* the sentinel 0 in the fade and the coefficient of variation
FadeSentinels ==
    IF variant = "individual"
    THEN pc = "returned" /\ results.summary.rows[1].Discharge_Capacity <= 0
             => results.statistics.capacity_fade_rate = [num |-> 0, den |-> 1]
    ELSE /\ results.fade_analysis.initial_capacity <= 0
             => results.fade_analysis.relative_fade = [num |-> 0, den |-> 1]
         /\ results.statistical_metrics.capacity_mean.num <= 0
             => results.statistical_metrics.capacity_cv = [sqrt_of |-> [num |-> 0, den |-> 1]]

\* C26: degenerate numeric cases never surface as errors but resolve to the
\* sentinel 0: efficiency is 0 when charge capacity is 0, coefficient of
\* variation is 0 when mean capacity is not positive, relative fade and
\* capacity fade rate are 0 when the initial capacity is not positive, and
\* DCIR is 0 when fewer than 2 pulse candidates exist or the current delta
\* is below 0.01; neither analyze nor postprocess raises.
C26_DegenerateIsZero ==
    /\ pc = "raised" => err.where \notin {"analyze", "postprocess"}
    /\ pc \in {"analyzed", "returned"} => RowSentinels /\ FadeSentinels

\* the individual analyzer has returned: cycle 1 has two pulse candidates
\* and no current delta, cycle 2 has no charge and fewer than 2 candidates,
\* and the first capacity is 0
C26_Witness ==
    /\ variant = "individual"
    /\ pc = "returned"
    /\ Cardinality(PulseCandidates(1)) >= 2
    /\ CurrentDelta(1) = 0
    /\ results.summary.rows[1].DCIR = [num |-> 0, den |-> 1]
    /\ results.summary.rows[1].Discharge_Capacity = 0
    /\ results.statistics.capacity_fade_rate = [num |-> 0, den |-> 1]
    /\ Cardinality(PulseCandidates(2)) < 2
    /\ results.summary.rows[2].Charge_Capacity = 0
    /\ results.summary.rows[2].Discharge_Capacity > 0
    /\ results.summary.rows[2].Efficiency = [num |-> 0, den |-> 1]

\* metadata.loaded_cycles names exactly the stored cycle numbers
LoadedCyclesExact == SeqToSet(metadata.loaded_cycles) = DOMAIN cycles

\* metadata.cycle_range covers every stored cycle number
RangeCoversStored ==
    \A n \in DOMAIN cycles : metadata.cycle_range[1] <= n /\ n <= metadata.cycle_range[2]

\* C28: after any sequence of load_all_cycles calls (with the same or
\* different ranges, completing or aborting with a propagated loader error)
\* and clear calls, whenever the metadata is non-empty its loaded_cycles
\* list contains exactly the currently stored cycle numbers and its
\* cycle_range covers every stored cycle number.
C28_MetadataConsistent == metadata # EmptyMap => LoadedCyclesExact /\ RangeCoversStored

\* the part of C28 that holds: with the loader of Variant A, whose passes
\* all complete, loaded_cycles names exactly the stored cycle numbers
C28_LoadedCyclesExactPNE == kind = "PNE" /\ metadata # EmptyMap => LoadedCyclesExact

\* the reliability analyzer works on exactly one cycle that the container has
OneAnalysedCycle ==
    /\ variant = "reliability"
    /\ Len(SelectSeq(ReliabilityCycles(config, store[container]),
                     LAMBDA n : HasCycle(store[container], n))) = 1

\* the result the claim describes for one cycle: zero fade values, metrics
\* without a confidence interval, an all-zero prediction and a grade
OneCycleResult ==
    /\ results.fade_analysis.relative_fade = [num |-> 0, den |-> 1]
    /\ results.fade_analysis.absolute_fade = 0
    /\ "capacity_ci_lower" \notin DOMAIN results.statistical_metrics
    /\ results.lifecycle_prediction.predicted_eol_cycle = 0
    /\ results.lifecycle_prediction.remaining_cycles = 0
    /\ "reliability_grade" \in DOMAIN results

\* C29: ReliabilityCycleAnalyzer.run() completes for a container (or
\* explicit cycle list) that yields exactly one analysed cycle: it returns
\* a result with zero fade values, statistical metrics without a confidence
\* interval, an all-zero lifecycle prediction and a grade, without raising.
C29_OneCycleRunCompletes ==
    OneAnalysedCycle => /\ pc # "raised"
                        /\ pc = "returned" => OneCycleResult

\* what run() does for one analysed cycle: analyze raises KeyError
\* 'linear_slope' and the results stay as they were
C29_OneCycleRunRaises ==
    OneAnalysedCycle => /\ pc # "returned"
                        /\ pc = "raised" => /\ err.exc = "KeyError"
                                            /\ err.msg = "linear_slope"
                                            /\ err.where = "analyze"
                                            /\ results = EmptyMap

\* get_summary_report is called on an analyzer whose run() has returned
ReportCalled == RunReturned /\ pc' = pc /\ ret'.op = "get_summary_report"

\* C30: after every run() of the reliability analyzer that returns
\* successfully, get_summary_report() returns the textual report without
\* raising, for both outcomes of lifecycle prediction (a projected end of
\* life, and the all-zero prediction returned when the initial capacity is
\* <= 0 or the slope is >= 0).
C30_ReportNeverRaises == [][ReportCalled => ret'.exc = "none"]_vars

\* the part of C30 that holds: after a run that projected an end of life
\* the report is returned, with the current cycle of the prediction
C30_ReportOfProjectedEol ==
    [][ReportCalled /\ "current_cycle" \in DOMAIN results.lifecycle_prediction
           => /\ ret'.exc = "none"
              /\ ret'.val[1][11] = results.lifecycle_prediction.current_cycle]_vars

====
